---- MODULE Spec2Model ----
(***************************************************************************)
(* A model of cwaggle_lasso: the SGF / SG state-transition trackers and    *)
(* their state-key enumerations, the trial loop of MyExperiment, the batch *)
(* and sweep orchestration of the command-line entry point, and the        *)
(* configuration loader.                                                   *)
(***************************************************************************)
EXTENDS Integers, Sequences, FiniteSets, TLC

VARIABLES
    \* ---- configuration read by the trackers and by world construction
    kind,                   \* "SGF" (SGFTracker) or "SG" (SGTracker)
    numRobots,              \* Config::numRobots
    maxTimeSteps,           \* Config::maxTimeSteps
    fakeRobots,             \* Config::fakeRobots
    lattice,                \* robot instances added by addFakeRobots (0 when it is not called)
    firstTime,              \* time value of the first update call of a trial
    \* ---- the world of the running trial
    numEntities,            \* number of "robot" entities of the world
    \* ---- tracker fields (m_triples holds m_pairs for the SG tracker)
    m_triples,
    m_readyToTrack,
    m_lastCounts,
    m_lastChangeTime,
    m_uncensoredDurations,
    m_censoredDurations,
    \* ---- the caller of update
    tpc,                    \* "idle" | "inTrial" | "crashed"
    time,                   \* time value of the latest update call of the trial
    hist,                   \* observer: what the caller has fed the tracker so far
    lookup,                 \* latest getTripleIndex / getPairIndex query and its result
    \* ---- the process: main, the sweeps, the batch of trials
    invocation,             \* "none" | "wait" | "bad": the command line; "bridge": runSimulation is called
    config,                 \* the Config fields main reads after load
    pc,                     \* where the process is
    arenaIdx,               \* arenaSweep's position in its arena list
    paramIdx,               \* paramSweep's position in its choice list
    trialIdx,               \* runExperimentWithTracker's loop variable i
    liveTracker,            \* "none" | "Null" | "SG" | "SGF": the tracker in scope
    constructed,            \* trackers constructed so far in this process
    fileWrites,             \* how often each tracker's export files were written
    trialLog,               \* <<trial index, rng seed>> of every MyExperiment built
    evalCount,              \* trials whose evaluation was added to avgEval
    avgEval,                \* runExperimentWithTracker's sum: the trials whose evaluation it holds
    abortLog,               \* the trials of the batch that reported "Trial aborted."
    printed,                \* the average the batch printed: the sum and its divisor
    simCompleted,           \* trials that printed "Simulation completed at step"
    exitStatus,             \* "running" | "return 0" | "return -1" | "exit(0)"
    \* ---- the MyExperiment of the running trial
    stepCount,              \* m_speedManager's step count
    running,                \* run()'s local
    forI,                   \* run()'s inner loop variable i
    m_aborted,
    m_eval,                 \* "uninit" | "finite" | "nan" | "inf"
    m_gui,                  \* "null" | "open"
    \* ---- Config::load
    fin,                    \* the ifstream: its file, read position and state
    token,                  \* load's local string
    \* ---- one robot's controller
    ctrl,                   \* the LassoController's fields, its robot and its latest action
    \* ---- world construction
    placed,                 \* the walls and the entities placed so far by addRobots / addPucks
    \* ---- two runs side by side that differ in the robot's debug selection
    twin,
    \* ---- the controller with the stopping criterion (controllerState)
    full,
    \* ---- MyExperiment::doSimulationStep for one robot
    sim

trackerVars == <<kind, numRobots, maxTimeSteps, fakeRobots, lattice, firstTime,
                 numEntities, m_triples, m_readyToTrack, m_lastCounts,
                 m_lastChangeTime, m_uncensoredDurations, m_censoredDurations,
                 tpc, time, hist, lookup>>

mainVars == <<invocation, config, pc, arenaIdx, paramIdx, trialIdx, liveTracker,
              constructed, fileWrites, trialLog, evalCount, avgEval, abortLog, printed,
              simCompleted, exitStatus,
              stepCount, running, forI, m_aborted, m_eval, m_gui>>

loadVars == <<fin, token>>

componentVars == <<ctrl, placed, twin, full, sim>>

vars == <<trackerVars, mainVars, loadVars, componentVars>>

-----------------------------------------------------------------------------
(* Bounds of the model *)

MaxRobots == 1          \* numRobots of the tracker runs is drawn from 1..MaxRobots
MaxEnumRobots == 5      \* numRobots of the enumeration runs is drawn from 0..MaxEnumRobots
MaxSteps == 2           \* maxTimeSteps is drawn from 0..MaxSteps
MaxCalls == 3           \* update calls per run
MaxLattice == 1         \* accepted lattice instances, 1..MaxLattice
MaxTrials == 2          \* numTrials is drawn from 1..MaxTrials
MaxStart == 1           \* startTrialIndex is drawn from 0..MaxStart
MaxRender == 2          \* renderSteps is drawn from 1..MaxRender
MaxTokens == 4          \* tokens of a configuration file, 0..MaxTokens

-----------------------------------------------------------------------------
(* State keys and their enumeration *)

Triple(s, g, f) == <<s, g, f>>
Pair(s, g) == <<s, g>>

RECURSIVE TriplesInner(_, _, _)
TriplesInner(n, f, s) ==
    IF s >= 0
    THEN <<Triple(s, n - s - f, f)>> \o TriplesInner(n, f, s - 1)
    ELSE <<>>

RECURSIVE TriplesOuter(_, _)
TriplesOuter(n, f) ==
    IF f <= n
    THEN TriplesInner(n, f, n - f) \o TriplesOuter(n, f + 1)
    ELSE <<>>

RECURSIVE TriplesInnerAsc(_, _, _)
TriplesInnerAsc(n, f, s) ==
    IF s <= n - f
    THEN <<Triple(s, n - s - f, f)>> \o TriplesInnerAsc(n, f, s + 1)
    ELSE <<>>

RECURSIVE TriplesOuterAsc(_, _)
TriplesOuterAsc(n, f) ==
    IF f <= n
    THEN TriplesInnerAsc(n, f, 0) \o TriplesOuterAsc(n, f + 1)
    ELSE <<>>

RECURSIVE TriplesOuterDesc(_, _)
TriplesOuterDesc(n, f) ==
    IF f >= 0
    THEN TriplesInner(n, f, n - f) \o TriplesOuterDesc(n, f - 1)
    ELSE <<>>

\* generateAllTriples with the outer loop running fermo downwards
generateAllTriples_fermoDescending(n) == TriplesOuterDesc(n, n)

\* generateAllTriples with the inner loop running solo upwards
generateAllTriples_soloAscending(n) == TriplesOuterAsc(n, 0)

generateAllTriples(n) == TriplesOuter(n, 0)

RECURSIVE PairsInner(_, _, _)
PairsInner(n, s, g) ==
    IF g <= n - s
    THEN <<Pair(s, g)>> \o PairsInner(n, s, g + 1)
    ELSE <<>>

RECURSIVE PairsOuter(_, _)
PairsOuter(n, s) ==
    IF s <= n
    THEN PairsInner(n, s, 0) \o PairsOuter(n, s + 1)
    ELSE <<>>

RECURSIVE PairsInnerStrict(_, _, _)
PairsInnerStrict(n, s, g) ==
    IF g < n - s
    THEN <<Pair(s, g)>> \o PairsInnerStrict(n, s, g + 1)
    ELSE <<>>

RECURSIVE PairsOuterStrict(_, _)
PairsOuterStrict(n, s) ==
    IF s <= n
    THEN PairsInnerStrict(n, s, 0) \o PairsOuterStrict(n, s + 1)
    ELSE <<>>

\* generateAllPairs with the inner bound g < n - s instead of g <= n - s
generateAllPairs_strictBound(n) == PairsOuterStrict(n, 0)

generateAllPairs(n) == PairsOuter(n, 0)

\* The constructors: m_triples = generateAllTriples(config.numRobots),
\* m_pairs = generateAllPairs(config.numRobots)
StateList(k, n) == IF k = "SGF" THEN generateAllTriples(n) ELSE generateAllPairs(n)

NotFound == -1

\* std::find + std::distance: the 0-based position of the first equal element;
\* NotFound stands for the runtime_error the code throws
IndexIn(list, key) ==
    IF \E i \in 1..Len(list) : list[i] = key
    THEN (CHOOSE i \in 1..Len(list) :
              list[i] = key /\ \A j \in 1..(i - 1) : list[j] # key) - 1
    ELSE NotFound

getTripleIndex(triple) == IndexIn(m_triples, triple)

\* The duration tables of a tracker with T states: all cells empty
EmptyUncensored(T) == [i \in 0..(T - 1) |-> [j \in 0..(T - 1) |-> <<>>]]
EmptyCensored(T) == [i \in 0..(T - 1) |-> <<>>]

-----------------------------------------------------------------------------
(* The world as the trackers see it *)

\* GetWorld: addFakeRobots (when fakeRobots is set) and then addRobots
WorldRobotCount(fake, lat, n) == (IF fake # 0 THEN lat ELSE 0) + n

\* The aggregate of the robots' getSGFstate values: every robot is in exactly
\* one of the states 0 (solo), 1 (grupo), 2 (fermo)
WorldStates(ne) ==
    {t \in (0..ne) \X (0..ne) \X (0..ne) : t[1] + t[2] + t[3] = ne}

\* getSGCounts: solo and grupo are counted, fermo robots are ignored
getSGCounts(w) == Pair(w[1], w[2])

\* What update receives: the SGF counts, or the SG counts of the world
Counts(k, w) == IF k = "SGF" THEN w ELSE getSGCounts(w)

-----------------------------------------------------------------------------
(* Tracker::update *)

\* bool endOfTrial = (time == m_config.maxTimeSteps)
endOfTrial(t) == t = maxTimeSteps

\* a variant: the flag is never cleared
clearsReady_never(end) == FALSE

\* if (endOfTrial) m_readyToTrack = false
clearsReady(end) == end

\* the guard with < in place of <=
nonPositiveElapsed_strict(elapsed) == elapsed < 0

\* if (elapsed <= 0) { warning; return; }
nonPositiveElapsed(elapsed) == elapsed <= 0

\* a variant of the test of update: a record made on every call
shouldRecord_always(counts, t) == TRUE

\* counts != m_lastCounts || endOfTrial, without the end-of-trial disjunct
shouldRecord_changeOnly(counts, t) == counts # m_lastCounts

\* if (counts != m_lastCounts || endOfTrial)
shouldRecord(counts, t) == counts # m_lastCounts \/ endOfTrial(t)

\* actualUpdate throws when a lookup fails; nothing has been pushed by then
actualUpdateThrows(counts, eot) ==
    \/ getTripleIndex(m_lastCounts) = NotFound
    \/ ~eot /\ getTripleIndex(counts) = NotFound

\* actualUpdate: push the duration into the censored or the uncensored table
actualUpdate(counts, elapsed, eot) ==
    LET fromIndex == getTripleIndex(m_lastCounts)
        toIndex == getTripleIndex(counts)
    IN  IF eot
        THEN /\ m_censoredDurations' =
                    [m_censoredDurations EXCEPT ![fromIndex] = Append(@, elapsed)]
             /\ UNCHANGED m_uncensoredDurations
        ELSE /\ m_uncensoredDurations' =
                    [m_uncensoredDurations EXCEPT ![fromIndex][toIndex] = Append(@, elapsed)]
             /\ UNCHANGED m_censoredDurations

\* What one call of update does to the tracker
UpdateOutcome(counts, t) ==
    IF ~m_readyToTrack THEN "baseline"
    ELSE IF ~shouldRecord(counts, t) THEN "nothing"
    ELSE IF nonPositiveElapsed(t - m_lastChangeTime) THEN "dropped"
    ELSE IF actualUpdateThrows(counts, endOfTrial(t)) THEN "thrown"
    ELSE "recorded"

\* SGFTracker::update / SGTracker::update on the tracker's fields
update(counts, t) ==
    LET outcome == UpdateOutcome(counts, t) IN
    CASE outcome = "baseline" ->
            /\ m_readyToTrack' = TRUE
            /\ m_lastChangeTime' = t
            /\ m_lastCounts' = counts
            /\ UNCHANGED <<m_uncensoredDurations, m_censoredDurations>>
      [] outcome = "recorded" ->
            /\ actualUpdate(counts, t - m_lastChangeTime, endOfTrial(t))
            /\ m_lastChangeTime' = t
            /\ m_lastCounts' = counts
            /\ m_readyToTrack' = IF clearsReady(endOfTrial(t)) THEN FALSE ELSE m_readyToTrack
      [] OTHER ->
            UNCHANGED <<m_readyToTrack, m_lastChangeTime, m_lastCounts,
                        m_uncensoredDurations, m_censoredDurations>>

-----------------------------------------------------------------------------
(* Recorded events *)

RECURSIVE SumLen(_, _)
SumLen(f, S) ==
    IF S = {} THEN 0
    ELSE LET x == CHOOSE y \in S : TRUE
         IN  Len(f[x]) + SumLen(f, S \ {x})

RECURSIVE SumRows(_, _)
SumRows(m, S) ==
    IF S = {} THEN 0
    ELSE LET x == CHOOSE y \in S : TRUE
         IN  SumLen(m[x], DOMAIN m[x]) + SumRows(m, S \ {x})

\* numUncensored / numCensored / total of the summary
numUncensored == SumRows(m_uncensoredDurations, DOMAIN m_uncensoredDurations)
numCensored == SumLen(m_censoredDurations, DOMAIN m_censoredDurations)
total == numUncensored + numCensored

-----------------------------------------------------------------------------
(* The caller of update: one MyExperiment per trial, one update call per tick *)

Uninit == <<>>      \* m_lastCounts / m_lastChangeTime before the first update: never read

HistInit ==
    [calls |-> 0,            \* update calls made so far
     trialCalls |-> 0,       \* update calls made in the current (or latest) trial
     prev |-> Uninit,        \* counts passed by the latest call of the trial
     lastOutcome |-> "none", \* what the latest call did
     changes |-> 0,          \* calls, not the first of their trial, whose counts differed from prev
     finalChanges |-> 0,     \* those of them that were the last call of their trial
     ends |-> 0,             \* trials whose last call had time == maxTimeSteps
     short |-> FALSE,        \* some trial consisted of a single call
     irregular |-> FALSE,    \* some trial was aborted, or a time value was used twice
     dup |-> FALSE,          \* the latest call repeated the time value of the call before it
     dupBefore |-> 0,        \* total before the latest call, when it did
     dupFirst |-> "none",    \* what the call before that one did
     lastAtEnd |-> FALSE,    \* the latest call had time == maxTimeSteps
     afterEnd |-> "none",    \* what the last call before the current trial did, if its time was maxTimeSteps
     totalAtStart |-> 0,     \* total when the current trial started
     baseStale |-> FALSE,    \* m_lastCounts and m_lastChangeTime were written in an earlier trial
     crossTrial |-> FALSE]   \* some event was recorded from a state observed in an earlier trial

TrackerConfigInit(robots) ==
    /\ kind \in {"SGF", "SG"}
    /\ numRobots \in robots
    /\ m_triples = StateList(kind, numRobots)
    /\ m_readyToTrack = FALSE
    /\ m_lastCounts = Uninit
    /\ m_lastChangeTime = -1
    /\ m_uncensoredDurations = EmptyUncensored(Len(m_triples))
    /\ m_censoredDurations = EmptyCensored(Len(m_triples))
    /\ numEntities = 0
    /\ tpc = "idle"
    /\ time = -1
    /\ hist = HistInit
    /\ lookup = [key |-> Uninit, index |-> NotFound]

\* The process before main has done anything
ProcessAtRest ==
    /\ arenaIdx = 0
    /\ paramIdx = 0
    /\ trialIdx = 0
    /\ liveTracker = "none"
    /\ constructed = 0
    /\ fileWrites = [SGF |-> 0, SG |-> 0]
    /\ trialLog = <<>>
    /\ evalCount = 0
    /\ avgEval = <<>>
    /\ abortLog = <<>>
    /\ printed = Uninit
    /\ simCompleted = 0
    /\ exitStatus = "running"
    /\ stepCount = 0
    /\ running = FALSE
    /\ forI = 0
    /\ m_aborted = FALSE
    /\ m_eval = "uninit"
    /\ m_gui = "null"

\* No controller, placement or pair of runs is being studied
ComponentsParked ==
    /\ ctrl = Uninit
    /\ placed = Uninit
    /\ twin = Uninit
    /\ full = Uninit
    /\ sim = Uninit

\* No configuration file is being read
LoadParked ==
    /\ fin = [file |-> <<>>, trailing |-> FALSE, opened |-> FALSE, pos |-> 1,
              state |-> "closed"]
    /\ token = ""

\* the tracker fields, at rest while the process is studied
TrackerParked ==
    /\ kind = "SGF"
    /\ fakeRobots = 0
    /\ lattice = 0
    /\ firstTime = 0
    /\ numEntities = 0
    /\ m_triples = <<>>
    /\ m_readyToTrack = FALSE
    /\ m_lastCounts = Uninit
    /\ m_lastChangeTime = -1
    /\ m_uncensoredDurations = <<>>
    /\ m_censoredDurations = <<>>
    /\ tpc = "parked"
    /\ time = -1
    /\ hist = HistInit
    /\ lookup = [key |-> Uninit, index |-> NotFound]

parkedVars == <<kind, fakeRobots, lattice, firstTime, numEntities, m_triples,
                m_readyToTrack, m_lastCounts, m_lastChangeTime,
                m_uncensoredDurations, m_censoredDurations, tpc, time, hist, lookup,
                fin, token, ctrl, placed, twin, full, sim>>

\* The process-level variables, at rest while a tracker is studied on its own
ProcessParked ==
    /\ invocation = "none"
    /\ config = [gui |-> 0, arenaSweep |-> 0, paramSweep |-> 0, trackingMode |-> 2,
                 numTrials |-> 1, startTrialIndex |-> 0, renderSteps |-> 1, numPucks |-> 0]
    /\ pc = "parked"
    /\ ProcessAtRest
    /\ LoadParked

MainParked ==
    /\ ProcessParked
    /\ ComponentsParked

\* A process with a freshly constructed tracker, before its first trial
TrackerInit ==
    /\ MainParked
    /\ TrackerConfigInit(1..MaxRobots)
    /\ maxTimeSteps \in 0..MaxSteps
    \* every arena has lattice centres clear of the walls
    \* the lattice runs are studied with one configured robot
    /\ \/ fakeRobots = 0 /\ lattice = 0
       \/ fakeRobots = 1 /\ lattice \in 1..MaxLattice /\ numRobots = 1
    /\ firstTime \in {0, 1}

configVars == <<kind, numRobots, maxTimeSteps, fakeRobots, lattice, firstTime, m_triples>>

\* MyExperiment's constructor: resetSimulator builds the world with GetWorld
StartTrial ==
    /\ tpc = "idle"
    /\ hist.calls < MaxCalls
    /\ numEntities' = WorldRobotCount(fakeRobots, lattice, numRobots)
    /\ tpc' = "inTrial"
    /\ time' = firstTime - 1
    /\ hist' = [hist EXCEPT !.trialCalls = 0, !.prev = Uninit, !.dup = FALSE, !.dupBefore = 0,
                             !.afterEnd = IF hist.lastAtEnd THEN hist.lastOutcome
                                          ELSE "none",
                             !.totalAtStart = total,
                             !.baseStale = hist.calls > 0]
    /\ UNCHANGED <<configVars, m_readyToTrack, m_lastCounts, m_lastChangeTime,
                   m_uncensoredDurations, m_censoredDurations, lookup>>
    /\ UNCHANGED <<mainVars, loadVars, componentVars>>

\* One tick: the world's aggregate is w and update is called with the next time
\* value; the trial ends with the call whose time is maxTimeSteps
Tick(w) ==
    /\ tpc = "inTrial"
    /\ hist.calls < MaxCalls
    /\ time < MaxSteps + 1
    /\ LET t == time + 1
           c == Counts(kind, w)
           out == UpdateOutcome(c, t)
           final == maxTimeSteps > 0 /\ t = maxTimeSteps
           changed == hist.trialCalls > 0 /\ c # hist.prev
       IN  /\ update(c, t)
           /\ time' = t
           /\ tpc' = IF out = "thrown" THEN "crashed"
                     ELSE IF final THEN "idle" ELSE "inTrial"
           /\ hist' = IF out = "thrown"
                      THEN [hist EXCEPT !.calls = @ + 1, !.lastOutcome = out,
                                        !.lastAtEnd = endOfTrial(t),
                                        !.dup = FALSE, !.dupBefore = 0]
                      ELSE [hist EXCEPT
                              !.calls = @ + 1,
                              !.trialCalls = @ + 1,
                              !.lastAtEnd = endOfTrial(t),
                              !.baseStale = IF out \in {"baseline", "recorded"}
                                            THEN FALSE ELSE @,
                              !.crossTrial = @ \/ (out = "recorded" /\ hist.baseStale),
                              !.prev = c,
                              !.lastOutcome = out,
                              !.changes = @ + (IF changed THEN 1 ELSE 0),
                              !.finalChanges = @ + (IF changed /\ final THEN 1 ELSE 0),
                              !.ends = @ + (IF final THEN 1 ELSE 0),
                              !.short = @ \/ (final /\ hist.trialCalls = 0),
                              !.dup = FALSE, !.dupBefore = 0]
    /\ UNCHANGED <<configVars, numEntities, lookup>>
    /\ UNCHANGED <<mainVars, loadVars, componentVars>>

\* A trial that ends without a call at maxTimeSteps: run() leaves its loop on a
\* nan evaluation
AbortTrial ==
    /\ tpc = "inTrial"
    /\ tpc' = "idle"
    /\ hist' = [hist EXCEPT !.irregular = TRUE, !.dup = FALSE, !.dupBefore = 0]
    /\ UNCHANGED <<configVars, numEntities, time, m_readyToTrack, m_lastCounts,
                   m_lastChangeTime, m_uncensoredDurations, m_censoredDurations, lookup>>
    /\ UNCHANGED <<mainVars, loadVars, componentVars>>

\* update called again with the time value of the call before it and other counts
TickSameTime(w) ==
    /\ tpc \in {"inTrial", "idle"}
    /\ hist.trialCalls > 0
    /\ hist.calls < MaxCalls
    /\ Counts(kind, w) # hist.prev
    /\ w \in WorldStates(numEntities)
    /\ LET c == Counts(kind, w)
           out == UpdateOutcome(c, time)
       IN  /\ update(c, time)
           /\ tpc' = IF out = "thrown" THEN "crashed" ELSE tpc
           /\ hist' = [hist EXCEPT
                          !.calls = @ + 1,
                          !.prev = c,
                          !.lastOutcome = out,
                          !.irregular = TRUE,
                          !.lastAtEnd = endOfTrial(time),
                          !.baseStale = IF out \in {"baseline", "recorded"}
                                        THEN FALSE ELSE @,
                          !.crossTrial = @ \/ (out = "recorded" /\ hist.baseStale),
                          !.dup = TRUE,
                          !.dupBefore = total,
                          !.dupFirst = hist.lastOutcome]
    /\ UNCHANGED <<configVars, numEntities, time, lookup>>
    /\ UNCHANGED <<mainVars, loadVars, componentVars>>

TrackerNext ==
    \/ StartTrial
    \/ \E w \in WorldStates(numEntities) : Tick(w)
    \/ AbortTrial
    \/ \E w \in WorldStates(numEntities) : TickSameTime(w)

SpecTracker == TrackerInit /\ [][TrackerNext]_vars

-----------------------------------------------------------------------------
(* The state keys of a constructed tracker and the index lookups of the export *)

EnumInit ==
    /\ MainParked
    /\ TrackerConfigInit(0..MaxEnumRobots)
    /\ maxTimeSteps = 0
    /\ fakeRobots = 0
    /\ lattice = 0
    /\ firstTime = 0

KeyDomain == IF kind = "SGF"
             THEN (0..numRobots) \X (0..numRobots) \X (0..numRobots)
             ELSE (0..numRobots) \X (0..numRobots)

\* getTripleIndex / getPairIndex applied to a key
Lookup(key) ==
    /\ lookup' = [key |-> key, index |-> getTripleIndex(key)]
    /\ UNCHANGED <<configVars, numEntities, m_readyToTrack, m_lastCounts,
                   m_lastChangeTime, m_uncensoredDurations, m_censoredDurations,
                   tpc, time, hist>>
    /\ UNCHANGED <<mainVars, loadVars, componentVars>>

EnumNext == \E key \in KeyDomain : Lookup(key)

SpecEnum == EnumInit /\ [][EnumNext]_vars

-----------------------------------------------------------------------------
(* Config and Config::load                                                     *)

\* The member initializers of Config. The double fields are held in hundredths.
ConfigDefaults ==
    [gui |-> 1, numRobots |-> 20, fakeRobots |-> 0, robotRadius |-> 1000,
     plowLength |-> 6000, plowAngleDeg |-> 0,
     numPucks |-> 0, puckRadius |-> 1000,
     arenaConfig |-> "",
     controllerSkip |-> 0,
     simTimeStep |-> 100, renderSteps |-> 100, maxTimeSteps |-> 0,
     writeDataSkip |-> 0, dataFilenameBase |-> "", numTrials |-> 10,
     startTrialIndex |-> 0, evalName |-> "",
     captureScreenshots |-> 0, screenshotFilenameBase |-> "",
     maxForwardSpeed |-> 200, maxAngularSpeed |-> 5,
     robotSensingDistance |-> 10000000, puckSensingDistance |-> 10000000,
     goalX |-> 0, goalY |-> 0, sensorNoise |-> 0, controllerState |-> 0,
     filterConstant |-> 0, controllerBlindness |-> 0,
     escapeDuration |-> 0,
     arenaSweep |-> 0, paramSweep |-> 0,
     trackingMode |-> 2]

\* the keys of load's if-chain, by the type of the field they are read into
SizeKeys ==
    {"numRobots", "fakeRobots", "gui", "numPucks", "controllerSkip", "maxTimeSteps",
     "writeDataSkip", "numTrials", "startTrialIndex", "captureScreenshots",
     "controllerState", "controllerBlindness", "escapeDuration", "arenaSweep",
     "paramSweep", "trackingMode"}
DoubleKeys ==
    {"robotRadius", "plowLength", "plowAngleDeg", "puckRadius", "simTimeStep",
     "renderSteps", "maxForwardSpeed", "maxAngularSpeed", "robotSensingDistance",
     "puckSensingDistance", "goalX", "goalY", "sensorNoise", "filterConstant"}
StringKeys == {"arenaConfig", "dataFilenameBase", "evalName", "screenshotFilenameBase"}
LegacyKeys == {"sgfTracking", "sgTracking"}

\* what a word of the file is worth as an unsigned integer
Digits == [d \in {"0", "1", "2"} |-> CASE d = "0" -> 0 [] d = "1" -> 1 [] d = "2" -> 2]

IsNumber(word) == word \in DOMAIN Digits

\* the words a configuration file is made of in the runs studied
Alphabet == {"trackingMode", "sgfTracking", "sgTracking", "gui", "arenaConfig",
             "bogusKey", "0", "1"}

\* the values an unsigned integer without initializer may be read as
Indeterminate == {0, 1, 2}

\* the stream after a word was extracted from it: eofbit when the word was
\* ended by the end of the file
Consumed(f) ==
    [f EXCEPT !.pos = @ + 1,
              !.state = IF f.pos = Len(f.file) /\ ~f.trailing THEN "eof" ELSE "good"]

\* the stream after an extraction that found nothing to extract
Failed(f) == [f EXCEPT !.state = "fail"]

\* operator>> (string): <<stream, value>>; the string is left alone when the
\* sentry fails
ExtractString(f, old) ==
    IF f.state # "good" \/ f.pos > Len(f.file)
    THEN <<Failed(f), old>>
    ELSE <<Consumed(f), f.file[f.pos]>>

\* operator>> (unsigned / double): <<stream, value>>; the variable is left
\* alone when the sentry fails and zeroed when the word is no number
ExtractNumber(f, old, scale) ==
    IF f.state # "good" \/ f.pos > Len(f.file)
    THEN <<Failed(f), old>>
    ELSE IF IsNumber(f.file[f.pos])
         THEN <<Consumed(f), Digits[f.file[f.pos]] * scale>>
         ELSE <<Failed(f), 0>>

\* the tracking mode a legacy key stands for, and a variant with the two mixed up
LegacyMode_swapped(key) == IF key = "sgfTracking" THEN 1 ELSE 2

LegacyMode(key) == IF key = "sgfTracking" THEN 2 ELSE 1

\* Config::load has opened the file, or failed to
ConfigInit ==
    /\ TrackerParked
    /\ ProcessAtRest
    /\ ComponentsParked
    /\ invocation = "none"
    /\ numRobots = ConfigDefaults.numRobots
    /\ maxTimeSteps = ConfigDefaults.maxTimeSteps
    /\ config = ConfigDefaults
    /\ pc = "load"
    /\ token = ""
    /\ \E n \in 0..MaxTokens :
          \E words \in [1..n -> Alphabet], trailing \in BOOLEAN, opened \in BOOLEAN :
             fin = [file |-> words, trailing |-> trailing, opened |-> opened,
                    pos |-> 1, state |-> IF opened THEN "good" ELSE "fail"]

processVars == <<invocation, arenaIdx, paramIdx, trialIdx, liveTracker, constructed,
                 fileWrites, trialLog, evalCount, avgEval, abortLog, printed,
                 simCompleted, exitStatus,
                 stepCount, running, forI, m_aborted, m_eval, m_gui>>

\* one iteration of load's while loop: a word is read into token and the
\* if-chain is run on token
LoadStep ==
    /\ pc = "load"
    /\ fin.state = "good"
    /\ LET t == ExtractString(fin, token)
           f1 == t[1]
           tok == t[2]
       IN  /\ token' = tok
           /\ IF tok \in SizeKeys \cup DoubleKeys
              THEN LET r == ExtractNumber(f1, config[tok],
                                          IF tok \in DoubleKeys THEN 100 ELSE 1)
                   IN  /\ fin' = r[1]
                       /\ config' = [config EXCEPT ![tok] = r[2]]
              ELSE IF tok \in StringKeys
              THEN LET r == ExtractString(f1, config[tok])
                   IN  /\ fin' = r[1]
                       /\ config' = [config EXCEPT ![tok] = r[2]]
              ELSE IF tok \in LegacyKeys
              THEN \E garbage \in Indeterminate :
                      LET r == ExtractNumber(f1, garbage, 1)
                          legacyValue == r[2]
                      IN  /\ fin' = r[1]
                          /\ config' = IF legacyValue = 1
                                       THEN [config EXCEPT !.trackingMode = LegacyMode(tok)]
                                       ELSE config
              ELSE /\ fin' = f1
                   /\ UNCHANGED config
    /\ UNCHANGED <<pc, processVars, trackerVars, componentVars>>

\* the while condition fails: load returns
LoadReturn ==
    /\ pc = "load"
    /\ fin.state # "good"
    /\ pc' = "loaded"
    /\ UNCHANGED <<config, fin, token, processVars, trackerVars, componentVars>>

ConfigNext ==
    \/ LoadStep
    \/ LoadReturn

SpecConfig == ConfigInit /\ [][ConfigNext]_vars

-----------------------------------------------------------------------------
(* The process: main, arenaSweep, paramSweep, singleExperiment, the batch of   *)
(* trials and the run() of each trial                                          *)

\* arenaSweep's arenas and paramSweep's choices for numRobots
Arenas == <<"sim_stadium_no_wall", "sim_stadium_one_wall",
            "sim_stadium_two_walls", "sim_stadium_three_walls">>
ParamChoices == <<4, 8, 12, 16>>

MainInit ==
    /\ TrackerParked
    /\ LoadParked
    /\ ComponentsParked
    /\ ProcessAtRest
    /\ invocation \in {"none", "wait", "bad", "bridge"}
    /\ config \in [gui : {0, 1}, arenaSweep : {0, 1}, paramSweep : {0, 1},
                   trackingMode : 0..3, numTrials : 1..MaxTrials,
                   startTrialIndex : 0..MaxStart, renderSteps : 1..MaxRender,
                   numPucks : {0, 1}, arenaConfig : {Arenas[1]}]
    \* the sweeps are studied with one trial per sweep point
    /\ (config.arenaSweep # 0 \/ config.paramSweep # 0)
          => (config.numTrials = 1 /\ config.startTrialIndex = 0 /\ config.renderSteps = 1)
    /\ numRobots = ConfigDefaults.numRobots
    /\ maxTimeSteps \in 0..MaxSteps
    /\ pc = "main"

waitAfterCompletion == invocation = "wait"

trialVars == <<stepCount, running, forI, m_aborted, m_eval, m_gui>>
batchVars == <<trialIdx, liveTracker, constructed, fileWrites, trialLog, evalCount,
               avgEval, abortLog, printed, simCompleted>>

\* exit(0): the process ends where it stands; no destructor of a local runs
exit0 ==
    /\ pc' = "done"
    /\ exitStatus' = "exit(0)"

\* main
Main ==
    /\ pc = "main"
    /\ invocation # "bridge"
    /\ IF invocation = "bad"
       THEN /\ pc' = "done"
            /\ exitStatus' = "return -1"
       ELSE /\ pc' = IF config.arenaSweep # 0 THEN "arenaSweep" ELSE "runParamOrSingle"
            /\ UNCHANGED exitStatus
    /\ UNCHANGED <<invocation, config, arenaIdx, paramIdx, batchVars, trialVars,
                   numRobots, maxTimeSteps, parkedVars>>

\* arenaSweep: the head of its loop over the arenas
ArenaSweep ==
    /\ pc = "arenaSweep"
    /\ IF arenaIdx < Len(Arenas)
       THEN /\ config' = [config EXCEPT !.arenaConfig = Arenas[arenaIdx + 1]]
            /\ pc' = "runParamOrSingle"
       ELSE /\ pc' = "mainReturn"
            /\ UNCHANGED config
    /\ UNCHANGED <<invocation, arenaIdx, paramIdx, batchVars, trialVars, exitStatus,
                   numRobots, maxTimeSteps, parkedVars>>

\* runParamOrSingle
RunParamOrSingle ==
    /\ pc = "runParamOrSingle"
    /\ IF config.paramSweep # 0
       THEN /\ pc' = "paramSweep"
            /\ paramIdx' = 0
       ELSE /\ pc' = "singleExperiment"
            /\ UNCHANGED paramIdx
    /\ UNCHANGED <<invocation, config, arenaIdx, batchVars, trialVars, exitStatus,
                   numRobots, maxTimeSteps, parkedVars>>

\* paramSweep: the head of its loop over the choices
ParamSweep ==
    /\ pc = "paramSweep"
    /\ IF paramIdx < Len(ParamChoices)
       THEN /\ numRobots' = ParamChoices[paramIdx + 1]
            /\ pc' = "singleExperiment"
       ELSE /\ pc' = "afterRunParamOrSingle"
            /\ UNCHANGED numRobots
    /\ UNCHANGED <<invocation, config, arenaIdx, paramIdx, batchVars, trialVars,
                   exitStatus, maxTimeSteps, parkedVars>>

\* the switch of singleExperiment: which tracker it constructs
TrackerFor(mode) ==
    CASE mode = 0 -> "Null"
      [] mode = 1 -> "SG"
      [] mode = 2 -> "SGF"
      [] OTHER -> "SGF"

\* singleExperiment up to its call of runExperimentWithTracker
SingleExperiment ==
    /\ pc = "singleExperiment"
    /\ liveTracker' = TrackerFor(config.trackingMode)
    /\ constructed' = constructed + 1
    /\ trialIdx' = config.startTrialIndex
    /\ evalCount' = 0
    /\ avgEval' = <<>>
    /\ abortLog' = <<>>
    /\ pc' = "trialLoop"
    /\ UNCHANGED <<invocation, config, arenaIdx, paramIdx, fileWrites, trialLog,
                   printed, simCompleted, trialVars, exitStatus, numRobots, maxTimeSteps,
                   parkedVars>>

\* runExperimentWithTracker: the head of the loop over the trials; a trial is
\* a MyExperiment, whose constructor runs resetSimulator, and whose run() starts
TrialLoop ==
    /\ pc = "trialLoop"
    /\ IF trialIdx < config.startTrialIndex + config.numTrials
       THEN /\ trialLog' = Append(trialLog, <<trialIdx, trialIdx + 1>>)
            /\ stepCount' = 0
            /\ m_aborted' = FALSE
            /\ m_eval' = "uninit"
            /\ m_gui' = IF config.gui # 0 THEN "open" ELSE "null"
            /\ running' = TRUE
            /\ forI' = 0
            /\ pc' = "loopTop"
            /\ UNCHANGED printed
       ELSE /\ printed' = [sum |-> avgEval, divisor |-> config.numTrials]
            /\ pc' = "trackerScopeExit"
            /\ UNCHANGED <<trialLog, trialVars>>
    /\ UNCHANGED <<invocation, config, arenaIdx, paramIdx, trialIdx, liveTracker,
                   constructed, fileWrites, evalCount, avgEval, abortLog, simCompleted,
                   exitStatus,
                   numRobots, maxTimeSteps, parkedVars>>

\* isnan(m_eval); m_eval has no initializer, so reading it before it was
\* assigned may give any value
IsNanResults(e) ==
    CASE e = "nan" -> {TRUE}
      [] e = "uninit" -> {TRUE, FALSE}
      [] OTHER -> {FALSE}

\* what a sum of squared distances to the goal can be as a double: a number,
\* +infinity when a square overflows, NaN when a coordinate is NaN
EvalValues == {"finite", "nan", "inf"}

\* run(): the top of the while loop, up to the start of the for loop
LoopTop ==
    /\ pc = "loopTop"
    /\ \E e \in EvalValues, isNan \in BOOLEAN :
          /\ m_eval' = IF config.numPucks > 0 THEN e ELSE m_eval
          /\ isNan \in IsNanResults(m_eval')
          /\ IF isNan
             THEN /\ m_aborted' = TRUE
                  /\ pc' = "completed"
                  /\ UNCHANGED forI
             ELSE /\ forI' = 0
                  /\ pc' = "for"
                  /\ UNCHANGED m_aborted
    /\ UNCHANGED <<invocation, config, arenaIdx, paramIdx, batchVars, stepCount,
                   running, m_gui, exitStatus, numRobots, maxTimeSteps, parkedVars>>

\* the test that ends the trial
stepLimitReached == maxTimeSteps > 0 /\ stepCount >= maxTimeSteps

\* one iteration of the for loop: the step-limit test, then doSimulationStep
ForStep ==
    /\ pc = "for"
    /\ forI < config.renderSteps
    /\ stepCount < MaxSteps + MaxRender + 1
    /\ running' = IF stepLimitReached THEN FALSE ELSE running
    /\ stepCount' = stepCount + 1
    /\ forI' = forI + 1
    /\ UNCHANGED <<invocation, config, pc, arenaIdx, paramIdx, batchVars, m_aborted,
                   m_eval, m_gui, exitStatus, numRobots, maxTimeSteps, parkedVars>>

\* the for loop is over; without a GUI the while condition is tested next
ForExit ==
    /\ pc = "for"
    /\ forI >= config.renderSteps
    /\ pc' = IF m_gui = "open" THEN "guiUpdate"
             ELSE IF running THEN "loopTop" ELSE "completed"
    /\ UNCHANGED <<invocation, config, arenaIdx, paramIdx, batchVars, trialVars,
                   exitStatus, numRobots, maxTimeSteps, parkedVars>>

\* m_gui->update() in the loop: sUserInput exits the process on a Closed event
\* or on Escape, else the frame is drawn and the while condition is tested
GuiUpdate ==
    /\ pc = "guiUpdate"
    /\ \E closed \in BOOLEAN :
          IF closed
          THEN exit0
          ELSE /\ pc' = IF running THEN "loopTop" ELSE "completed"
               /\ UNCHANGED exitStatus
    /\ UNCHANGED <<invocation, config, arenaIdx, paramIdx, batchVars, trialVars,
                   numRobots, maxTimeSteps, parkedVars>>

\* after the while loop: the final step count is printed, the GUI is closed or
\* kept open
Completed ==
    /\ pc = "completed"
    /\ simCompleted' = simCompleted + 1
    /\ IF m_gui = "open"
       THEN IF waitAfterCompletion
            THEN /\ pc' = "waitLoop"
                 /\ UNCHANGED m_gui
            ELSE /\ m_gui' = "null"
                 /\ pc' = "afterRun"
       ELSE /\ pc' = "afterRun"
            /\ UNCHANGED m_gui
    /\ UNCHANGED <<invocation, config, arenaIdx, paramIdx, trialIdx, liveTracker,
                   constructed, fileWrites, trialLog, evalCount, avgEval, abortLog,
                   printed, exitStatus,
                   stepCount, running, forI, m_aborted, m_eval, numRobots,
                   maxTimeSteps, parkedVars>>

\* while (m_gui && m_gui->isOpen()) { m_gui->update(); sleep }: nothing in the
\* process closes the window, the Closed event ends the process
WaitLoop ==
    /\ pc = "waitLoop"
    /\ exit0
    /\ UNCHANGED <<invocation, config, arenaIdx, paramIdx, batchVars, trialVars,
                   numRobots, maxTimeSteps, parkedVars>>

\* avgEval += exp.getEvaluation(), with a variant that adds every trial
Accumulate_always(sum, i, aborted) == Append(sum, i)

\* the if / else after exp.run(): what becomes of the sum
Accumulate(sum, i, aborted) == IF aborted THEN sum ELSE Append(sum, i)

\* run() has returned: the trial's evaluation is added unless it was aborted
AfterRun ==
    /\ pc = "afterRun"
    /\ invocation # "bridge"
    /\ evalCount' = IF m_aborted THEN evalCount ELSE evalCount + 1
    /\ avgEval' = Accumulate(avgEval, trialIdx, m_aborted)
    /\ abortLog' = IF m_aborted THEN Append(abortLog, trialIdx) ELSE abortLog
    /\ trialIdx' = trialIdx + 1
    /\ pc' = "trialLoop"
    /\ UNCHANGED <<invocation, config, arenaIdx, paramIdx, liveTracker, constructed,
                   fileWrites, trialLog, printed, simCompleted, trialVars, exitStatus,
                   numRobots, maxTimeSteps, parkedVars>>

\* ~SGFTracker / ~SGTracker write their three files; ~NullTracker writes nothing
Export(w, t) == IF t \in {"SG", "SGF"} THEN [w EXCEPT ![t] = @ + 1] ELSE w

\* the tracker goes out of scope in singleExperiment, which returns
TrackerScopeExit ==
    /\ pc = "trackerScopeExit"
    /\ fileWrites' = Export(fileWrites, liveTracker)
    /\ liveTracker' = "none"
    /\ IF config.paramSweep # 0
       THEN /\ paramIdx' = paramIdx + 1
            /\ pc' = "paramSweep"
       ELSE /\ pc' = "afterRunParamOrSingle"
            /\ UNCHANGED paramIdx
    /\ UNCHANGED <<invocation, config, arenaIdx, trialIdx, constructed, trialLog,
                   evalCount, avgEval, abortLog, printed, simCompleted, trialVars,
                   exitStatus, numRobots,
                   maxTimeSteps, parkedVars>>

\* runParamOrSingle has returned, to arenaSweep's loop or to main
AfterRunParamOrSingle ==
    /\ pc = "afterRunParamOrSingle"
    /\ IF config.arenaSweep # 0
       THEN /\ arenaIdx' = arenaIdx + 1
            /\ pc' = "arenaSweep"
       ELSE /\ pc' = "mainReturn"
            /\ UNCHANGED arenaIdx
    /\ UNCHANGED <<invocation, config, paramIdx, batchVars, trialVars, exitStatus,
                   numRobots, maxTimeSteps, parkedVars>>

\* main returns 0
MainReturn ==
    /\ pc = "mainReturn"
    /\ pc' = "done"
    /\ exitStatus' = "return 0"
    /\ UNCHANGED <<invocation, config, arenaIdx, paramIdx, batchVars, trialVars,
                   numRobots, maxTimeSteps, parkedVars>>

\* the bridge's runSimulation, up to its loop: no tracker is constructed and
\* the loop variable starts at 0
RunSimulation ==
    /\ pc = "main"
    /\ invocation = "bridge"
    /\ trialIdx' = 0
    /\ avgEval' = <<>>
    /\ abortLog' = <<>>
    /\ pc' = "bridgeLoop"
    /\ UNCHANGED <<invocation, config, arenaIdx, paramIdx, liveTracker, constructed,
                   fileWrites, trialLog, evalCount, printed, simCompleted, trialVars,
                   exitStatus, numRobots, maxTimeSteps, parkedVars>>

\* runSimulation: the head of its loop over the trials; after the loop the
\* average is printed and the call returns
BridgeLoop ==
    /\ pc = "bridgeLoop"
    /\ IF trialIdx < config.numTrials
       THEN /\ trialLog' = Append(trialLog, <<trialIdx, trialIdx + 1>>)
            /\ stepCount' = 0
            /\ m_aborted' = FALSE
            /\ m_eval' = "uninit"
            /\ m_gui' = IF config.gui # 0 THEN "open" ELSE "null"
            /\ running' = TRUE
            /\ forI' = 0
            /\ pc' = "loopTop"
            /\ UNCHANGED <<printed, exitStatus>>
       ELSE /\ printed' = [sum |-> avgEval, divisor |-> config.numTrials]
            /\ pc' = "done"
            /\ exitStatus' = "returned"
            /\ UNCHANGED <<trialLog, trialVars>>
    /\ UNCHANGED <<invocation, config, arenaIdx, paramIdx, trialIdx, liveTracker,
                   constructed, fileWrites, evalCount, avgEval, abortLog, simCompleted,
                   numRobots, maxTimeSteps, parkedVars>>

\* runSimulation after exp.run()
BridgeAfterRun ==
    /\ pc = "afterRun"
    /\ invocation = "bridge"
    /\ evalCount' = IF m_aborted THEN evalCount ELSE evalCount + 1
    /\ avgEval' = Accumulate(avgEval, trialIdx, m_aborted)
    /\ abortLog' = IF m_aborted THEN Append(abortLog, trialIdx) ELSE abortLog
    /\ trialIdx' = trialIdx + 1
    /\ pc' = "bridgeLoop"
    /\ UNCHANGED <<invocation, config, arenaIdx, paramIdx, liveTracker, constructed,
                   fileWrites, trialLog, printed, simCompleted, trialVars, exitStatus,
                   numRobots, maxTimeSteps, parkedVars>>

MainNext ==
    \/ Main
    \/ ArenaSweep
    \/ RunParamOrSingle
    \/ ParamSweep
    \/ SingleExperiment
    \/ TrialLoop
    \/ LoopTop
    \/ ForStep
    \/ ForExit
    \/ GuiUpdate
    \/ Completed
    \/ WaitLoop
    \/ AfterRun
    \/ TrackerScopeExit
    \/ AfterRunParamOrSingle
    \/ MainReturn
    \/ RunSimulation
    \/ BridgeLoop
    \/ BridgeAfterRun

SpecMain == MainInit /\ [][MainNext]_vars

-----------------------------------------------------------------------------
(* The controller of one robot: LassoController::getAction                 *)
(* Positions lie on a line and are counted in half units, speeds and tau   *)
(* in hundredths.                                                          *)

QueueLen == 50          \* FixedLengthQueue<Vec2, 50> m_positionQueue
MaxTicks == 52          \* calls of getAction studied
MaxEscape == 2          \* largest Config::escapeDuration studied

\* where the robot is found: where it was constructed, half a unit from
\* there, and a unit and a half from there
Positions == {0, 1, 3}

\* default_random_engine draws of m_escapeNoiseDistV / m_escapeNoiseDistW:
\* Uniform(-0.5, 0.1) and Uniform(-0.5, 0.5)
EscapeNoise == {<<-50, -50>>, <<0, 25>>}

\* what getTargetPointFromCircle hands to computeSpeeds: no valid target, or a
\* target straight ahead (alpha = 0)
Targets == {"invalid", "ahead"}

\* what getExtreme hands to computeTau, <<puckValid, puckValue>>: a puck is in
\* view from everywhere but the position of construction
PuckReading(robotPos) == IF robotPos = 0 THEN <<FALSE, 0>> ELSE <<TRUE, 25>>

Dist(p, q) == IF p > q THEN p - q ELSE q - p

\* FixedLengthQueue::push
QueuePush(q, value) == IF Len(q) = QueueLen THEN Append(Tail(q), value) ELSE Append(q, value)

\* computeTau
computeTau(tau, puck) == IF puck[1] THEN puck[2] ELSE tau

\* computeSpeeds: <<v, w>> = <<cos(alpha)^3, sin(alpha)^3>>, or <<0, 0.25>> without a target
computeSpeeds(target) ==
    CASE target = "ahead" -> <<100, 0>>
      [] OTHER -> <<0, 25>>

\* a variant of slowOrStop that looks at the far sensor first
slowOrStop_farFirst(v, robotAheadClose, robotAheadFar) ==
    IF robotAheadFar # 0 THEN v \div 4
    ELSE IF robotAheadClose # 0 THEN 0
    ELSE v

\* slowOrStop: the forward speed after the stop / slow choice
slowOrStop(v, robotAheadClose, robotAheadFar) ==
    IF robotAheadClose # 0 THEN 0
    ELSE IF robotAheadFar # 0 THEN v \div 4
    ELSE v

\* a variant of the stuck test that never fires
stuck_never(robotPos, oldPos) == FALSE

\* escapeIfStuck's test m_robotPos.dist(oldPos) < 1 (one unit is two half units)
stuck(robotPos, oldPos) == Dist(robotPos, oldPos) < 2

Min(a, b) == IF a < b THEN a ELSE b

\* Everything but the components is at rest
OthersParked ==
    /\ TrackerParked
    /\ numRobots = ConfigDefaults.numRobots
    /\ maxTimeSteps = ConfigDefaults.maxTimeSteps
    /\ ProcessParked

CtrlInit ==
    /\ OthersParked
    /\ placed = Uninit
    /\ twin = Uninit
    /\ full = Uninit
    /\ sim = Uninit
    /\ \E d \in 0..MaxEscape :
        ctrl = [ escapeDuration |-> d,         \* m_config.escapeDuration
                 robot |-> 0,                  \* the robot's CTransform::p
                 m_robotPos |-> 0,
                 m_positionQueue |-> <<0>>,    \* the constructor pushes the position
                 m_escapeCountdown |-> 0,
                 m_tau |-> 50,
                 m_v |-> 0, m_w |-> 0,
                 m_stop |-> FALSE, m_slow |-> FALSE,
                 \* observer
                 calls |-> 0,                  \* calls of getAction so far
                 displaced |-> FALSE,          \* the robot has been moved
                 still |-> 0,                  \* latest consecutive calls that read one position
                 triggered |-> FALSE,          \* the latest call set the countdown
                 sinceTrigger |-> MaxEscape + 1, \* calls since the latest one that set it
                 drawn |-> FALSE ]             \* the latest call drew <<v, w>> from the noise

ctrlRest == <<trackerVars, mainVars, loadVars, placed, twin, full, sim>>

\* The world moves the robot (physics, or a drag with the mouse); it is followed
\* through one displacement
Displace ==
    /\ ctrl # Uninit
    /\ ~ctrl.displaced
    /\ ctrl.calls < MaxTicks
    /\ \E p \in Positions \ {ctrl.robot} :
        ctrl' = [ctrl EXCEPT !.robot = p, !.displaced = TRUE]
    /\ UNCHANGED ctrlRest

\* LassoController::getAction with the sensor readings and the draws it receives
GetAction ==
    /\ ctrl # Uninit
    /\ ctrl.calls < MaxTicks
    /\ \E robotAheadClose \in {0, 1}, robotAheadFar \in {0, 1}, target \in Targets,
          noise \in EscapeNoise :
        LET robotPos == ctrl.robot
            tau == computeTau(ctrl.m_tau, PuckReading(robotPos))
            speeds == computeSpeeds(target)
            v1 == slowOrStop(speeds[1], robotAheadClose, robotAheadFar)
            \* escapeIfStuck
            oldPos == Head(ctrl.m_positionQueue)
            isStuck == stuck(robotPos, oldPos)
            countdown == IF isStuck THEN ctrl.escapeDuration ELSE ctrl.m_escapeCountdown
            escaping == countdown > 0
            \* the draws are made only when escaping
            v2 == IF escaping THEN noise[1] ELSE v1
            w2 == IF escaping THEN noise[2] ELSE speeds[2]
            prev == ctrl.m_positionQueue[Len(ctrl.m_positionQueue)]
        IN  \* a draw that is not made and a target that is overwritten are not
            \* told apart
            /\ (~escaping) => noise = <<-50, -50>>
            /\ escaping => target = "invalid"
            /\ ctrl' = [ctrl EXCEPT
                    !.m_robotPos = robotPos,
                    !.m_tau = tau,
                    !.m_v = v2, !.m_w = w2,
                    !.m_stop = robotAheadClose # 0,
                    !.m_slow = robotAheadFar # 0,
                    !.m_positionQueue = QueuePush(ctrl.m_positionQueue, robotPos),
                    !.m_escapeCountdown = IF countdown > 0 THEN countdown - 1 ELSE countdown,
                    !.calls = ctrl.calls + 1,
                    !.still = IF ctrl.calls > 0 /\ robotPos = prev
                              THEN Min(ctrl.still + 1, QueueLen + 1) ELSE 1,
                    !.triggered = isStuck,
                    !.sinceTrigger = IF isStuck THEN 0
                                     ELSE Min(ctrl.sinceTrigger + 1, MaxEscape + 1),
                    !.drawn = escaping]
    /\ UNCHANGED ctrlRest

CtrlNext ==
    \/ Displace
    \/ GetAction

SpecCtrl == CtrlInit /\ [][CtrlNext]_vars

-----------------------------------------------------------------------------
(* World construction: the rejection sampling of addRobots and addPucks     *)
(* Positions are taken along a line that crosses one wall at a right angle, *)
(* in tens of units.                                                        *)

MaxWidth == 8           \* World::width
MaxRadius == 2          \* largest Config::robotRadius and Config::puckRadius studied
MaxThick == 2           \* largest CLineBody::r studied
MaxEntities == 1        \* largest Config::numRobots and Config::numPucks studied here
LatticeGap == 4         \* addFakeRobots: double gap = 40
nAngles == 16           \* addFakeRobots: double nAngles = 16

\* Intersect::checkCircleSegmentIntersection for a point beside the segment, at
\* distance d of it: the circle of the given radius around the point meets the
\* segment.  Whether a circle that touches the segment meets it is left open
\* (touching).
checkCircleSegmentIntersection(d, radius, touching) ==
    IF touching THEN d <= radius ELSE d < radius

\* checkPosition: no "line" entity is met by the circle of radius line.r + radius
checkPosition(world, p, radius) ==
    \A i \in DOMAIN world.lines :
        ~checkCircleSegmentIntersection(Dist(p, world.lines[i].x),
                                        world.lines[i].r + radius, world.touching)

PlaceInit ==
    /\ OthersParked
    /\ ctrl = Uninit
    /\ twin = Uninit
    /\ full = Uninit
    /\ sim = Uninit
    /\ \E robotRadius \in 1..MaxRadius, puckRadius \in 1..MaxRadius,
          r \in 1..MaxThick, touching \in BOOLEAN,
          nr \in 0..MaxEntities, np \in 0..MaxEntities, fake \in {0, 1} :
        placed = [ robotRadius |-> robotRadius,
                   puckRadius |-> puckRadius,
                   fakeRobots |-> fake,
                   numRobots |-> nr,
                   numPucks |-> np,
                   width |-> MaxWidth,
                   \* the wall of sim_stadium_one_wall, at width/2
                   lines |-> << [x |-> MaxWidth \div 2, r |-> r] >>,
                   touching |-> touching,
                   \* entities added so far: tag, body radius, CTransform::p,
                   \* whether the sampling loop has left it, and for a robot
                   \* of the lattice the index of its orientation (else 0)
                   entities |-> <<>>,
                   pc |-> "addFakeRobots" ]

placeRest == <<trackerVars, mainVars, loadVars, ctrl, twin, full, sim>>

Count(world, tag) ==
    Cardinality({i \in DOMAIN world.entities :
                    world.entities[i].tag = tag /\ world.entities[i].orientation = 0})

\* addRobot: a robot has a circle body unless fakeRobots is set
RobotBody(world) == IF world.fakeRobots # 0 THEN 0 ELSE world.robotRadius

\* addFakeRobots, the loop over x: the lattice centres gap/2, gap/2 + gap, ...
\* below the width
RECURSIVE LatticeCentres(_, _)
LatticeCentres(x, w) ==
    IF x < w THEN <<x>> \o LatticeCentres(x + LatticeGap, w) ELSE <<>>

\* addFakeRobots, the loop over the angles at one centre (dFromCentre = 0): a
\* robot per orientation if the centre passes checkPosition with radius 0
LatticeAt(world, x) ==
    IF checkPosition(world, x, 0)
    THEN [k \in 1..nAngles |->
            [tag |-> "robot", radius |-> RobotBody(world), p |-> x, settled |-> TRUE,
             orientation |-> k]]
    ELSE <<>>

RECURSIVE LatticeRobots(_, _)
LatticeRobots(world, centres) ==
    IF centres = <<>> THEN <<>>
    ELSE LatticeAt(world, Head(centres)) \o LatticeRobots(world, Tail(centres))

\* GetWorld: if (config.fakeRobots) addFakeRobots(world, config)
AddFakeRobots ==
    /\ placed # Uninit
    /\ placed.pc = "addFakeRobots"
    /\ placed' = [placed EXCEPT
            !.entities = IF placed.fakeRobots # 0
                         THEN LatticeRobots(placed, LatticeCentres(LatticeGap \div 2, placed.width))
                         ELSE @,
            !.pc = "addRobots"]
    /\ UNCHANGED placeRest

Sampling(world) ==
    world.entities # <<>> /\ ~world.entities[Len(world.entities)].settled

\* addRobots, the head of one turn of the for loop: addRobot
AddRobot ==
    /\ placed # Uninit
    /\ placed.pc = "addRobots"
    /\ ~Sampling(placed)
    /\ Count(placed, "robot") < placed.numRobots
    /\ placed' = [placed EXCEPT !.entities =
            Append(@, [tag |-> "robot", radius |-> RobotBody(placed), p |-> 0,
                       settled |-> FALSE, orientation |-> 0])]
    /\ UNCHANGED placeRest

\* addRobots, one turn of the do-while loop: a draw of Xrng and the test
SampleRobot ==
    /\ placed # Uninit
    /\ placed.pc = "addRobots"
    /\ Sampling(placed)
    /\ \E draw \in 0..(placed.width - 2 * placed.robotRadius) :
        LET p == placed.robotRadius + draw
            n == Len(placed.entities)
        IN  placed' = [placed EXCEPT
                !.entities[n].p = p,
                !.entities[n].settled = checkPosition(placed, p, placed.robotRadius)]
    /\ UNCHANGED placeRest

\* addRobots returns
RobotsDone ==
    /\ placed # Uninit
    /\ placed.pc = "addRobots"
    /\ ~Sampling(placed)
    /\ Count(placed, "robot") = placed.numRobots
    /\ placed' = [placed EXCEPT !.pc = "addPucks"]
    /\ UNCHANGED placeRest

\* addPucks, the head of one turn of the for loop: addPuck
AddPuck ==
    /\ placed # Uninit
    /\ placed.pc = "addPucks"
    /\ ~Sampling(placed)
    /\ Count(placed, "red_puck") < placed.numPucks
    /\ placed' = [placed EXCEPT !.entities =
            Append(@, [tag |-> "red_puck", radius |-> placed.puckRadius, p |-> 0,
                       settled |-> FALSE, orientation |-> 0])]
    /\ UNCHANGED placeRest

\* addPucks, one turn of the do-while loop: a draw of Xrng and the test, which
\* is made with config.robotRadius
SamplePuck ==
    /\ placed # Uninit
    /\ placed.pc = "addPucks"
    /\ Sampling(placed)
    /\ \E draw \in 0..(placed.width - 2 * placed.puckRadius) :
        LET p == placed.puckRadius + draw
            n == Len(placed.entities)
        IN  placed' = [placed EXCEPT
                !.entities[n].p = p,
                !.entities[n].settled = checkPosition(placed, p, placed.robotRadius)]
    /\ UNCHANGED placeRest

\* addPucks returns
PucksDone ==
    /\ placed # Uninit
    /\ placed.pc = "addPucks"
    /\ ~Sampling(placed)
    /\ Count(placed, "red_puck") = placed.numPucks
    /\ placed' = [placed EXCEPT !.pc = "done"]
    /\ UNCHANGED placeRest

PlaceNext ==
    \/ AddFakeRobots
    \/ AddRobot
    \/ SampleRobot
    \/ RobotsDone
    \/ AddPuck
    \/ SamplePuck
    \/ PucksDone

SpecPlace == PlaceInit /\ [][PlaceNext]_vars

-----------------------------------------------------------------------------
(* Two runs of one robot's sensing and control that start from the same     *)
(* world, seed and inputs and differ in the robot's 'selected' flag.        *)
(* The grids are cut down to the robot's own cell (cell 0) and a ring of    *)
(* cells around it; headings point at a cell of the ring.  The robot is the *)
(* only one of its world, so its robot sensors read 0, and escapeDuration   *)
(* has its default 0.                                                       *)

MaxCell == 3            \* cells 1 .. MaxCell form the ring

Cells == 0..MaxCell
Ring(k) == ((k - 1) % MaxCell) + 1

GridIds == 0..5         \* GetWorld adds six grids
GridValues == {25, 50, 100}

RunIds == {"A", "B"}

\* ValueGrid::set
GridSet(grids, g, cell, value) == [grids EXCEPT ![g][cell] = value]

RECURSIVE GridSetAll(_, _, _, _)
GridSetAll(grids, g, cells, value) ==
    IF cells = <<>> THEN grids
    ELSE GridSetAll(GridSet(grids, g, Head(cells), value), g, Tail(cells), value)

\* ValueGrid::addContour: the cells of the source grid that hold the level are
\* stamped into grid g at the given intensity
addContour(grids, g, level, src, intensity) ==
    [grids EXCEPT ![g] = [c \in Cells |-> IF grids[src][c] = level THEN intensity ELSE @[c]]]

\* samplePerimeter: the perimeter sample of the puck, moved by the sensor noise
samplePerimeter(puckCell, noise) == <<Ring(puckCell + noise)>>

\* samplePerimeter, vis only: the samples are marked in grid 2
perimeterMarks(grids, vis, samples) ==
    IF vis THEN GridSetAll(grids, 2, samples, 100) ELSE grids

\* checkVisibility with minDTG = 0, maxDTG = 1 and a sensing distance that
\* covers the ring; it reads grid 0 (m_toGoalGrid)
checkVisibility(grids, pos) ==
    LET targetDTG == grids[0][pos]
        robotDTG == grids[0][0]
    IN  ~(robotDTG = 0 \/ targetDTG = 0 \/ targetDTG = 100)

\* getExtreme with GET_MAX_DTG, the loop over the samples: <<valid, result>>
RECURSIVE ExtremeLoop(_, _, _)
ExtremeLoop(grids, samples, acc) ==
    IF samples = <<>> THEN acc
    ELSE LET pos == Head(samples)
             v == grids[0][pos]
         IN  ExtremeLoop(grids, Tail(samples),
                 IF checkVisibility(grids, pos) /\ v > acc[2] THEN <<TRUE, v>> ELSE acc)

getExtreme(grids, samples) == ExtremeLoop(grids, samples, <<FALSE, 0>>)

\* getExtreme, vis only: the contour of the result is stamped into grid 2
extremeMarks(grids, vis, result) ==
    IF vis THEN addContour(grids, 2, result, 0, 100) ELSE grids

\* getTargetPointFromCircle: the samples in the field of view, left to right
circleSamples(angle) == <<Ring(angle - 1), Ring(angle), Ring(angle + 1)>>

\* the loop over the samples: [valid, index of the target, smallestAbsDiff, lastV]
RECURSIVE TargetLoop(_, _, _, _, _)
TargetLoop(grids, samples, i, targetDTG, acc) ==
    IF i > Len(samples) THEN acc
    ELSE LET v == grids[0][samples[i]]
             absDiff == Dist(targetDTG, v)
             hit == v < acc.lastV /\ acc.lastV < 100 /\ (~acc.valid \/ absDiff < acc.diff)
         IN  TargetLoop(grids, samples, i + 1, targetDTG,
                 IF hit THEN [valid |-> TRUE, index |-> i, diff |-> absDiff, lastV |-> v]
                 ELSE [acc EXCEPT !.lastV = v])

getTargetPointFromCircle(grids, angle, targetDTG) ==
    TargetLoop(grids, circleSamples(angle), 1, targetDTG,
               [valid |-> FALSE, index |-> 0, diff |-> 0, lastV |-> 0])

\* a variant of targetMarks that marks the target in the distance-to-goal grid
targetMarks_toGoal(grids, vis, samples, target) ==
    IF vis THEN GridSet(GridSetAll(grids, 3, samples, 50), 0, target, 100) ELSE grids

\* getTargetPointFromCircle, vis only: the samples are marked in grid 3 and the
\* target in grid 5
targetMarks(grids, vis, samples, target) ==
    IF vis THEN GridSet(GridSetAll(grids, 3, samples, 50), 5, target, 100) ELSE grids

\* computeSpeeds for a target at the given place of the field of view
\* (alpha = -45, 0, 45 degrees): <<cos(alpha)^3, sin(alpha)^3>>
speedsToward(found) ==
    CASE ~found.valid -> <<0, 25>>
      [] found.index = 1 -> <<35, -35>>
      [] found.index = 2 -> <<100, 0>>
      [] OTHER -> <<35, 35>>

\* the target search of a call of getAction finds no target
NoTarget(run, puckCell, noise) ==
    LET extreme == getExtreme(run.grids, samplePerimeter(puckCell, noise))
    IN  ~getTargetPointFromCircle(run.grids, run.angle, computeTau(run.m_tau, extreme)).valid

\* getAction of one run.  'garbage' is what the local 'target' of
\* getTargetPointFromCircle holds when no sample has been assigned to it.
RunGetAction(run, puckCell, noise, garbage) ==
    LET vis == run.selected
        \* computeTau
        samples == samplePerimeter(puckCell, noise)
        g1 == perimeterMarks(run.grids, vis, samples)
        extreme == getExtreme(g1, samples)
        g2 == extremeMarks(g1, vis, extreme[2])
        tau == computeTau(run.m_tau, extreme)
        \* computeSpeeds
        view == circleSamples(run.angle)
        found == getTargetPointFromCircle(g2, run.angle, tau)
        target == IF found.valid THEN view[found.index] ELSE garbage
        g3 == targetMarks(g2, vis, view, target)
        speeds == speedsToward(found)
        v == slowOrStop(speeds[1], 0, 0)
        \* the debug block of getAction
        g4 == IF vis THEN addContour(g3, 5, tau, 0, 100) ELSE g3
    IN  [run EXCEPT !.grids = g4, !.m_tau = tau, !.m_v = v, !.m_w = speeds[2]]

\* GUI::rotateRobots on one run: a quarter turn stands for 0.15 rad
RunRotate(run, turn) ==
    IF run.selected THEN [run EXCEPT !.angle = Ring(@ + turn)] ELSE run

TwinInit ==
    /\ OthersParked
    /\ ctrl = Uninit
    /\ placed = Uninit
    /\ full = Uninit
    /\ sim = Uninit
    /\ \E field \in [1..MaxCell -> GridValues], angle \in 1..MaxCell, puckCell \in {1},
          selected \in {[A |-> TRUE, B |-> FALSE], [A |-> FALSE, B |-> FALSE]} :
        LET grids == [g \in GridIds |->
                        IF g = 0 THEN [c \in Cells |-> IF c = 0 THEN 50 ELSE field[c]]
                        ELSE [c \in Cells |-> 0]]
        IN  twin = [ puckCell |-> puckCell,
                     runs |-> [r \in RunIds |->
                                 [ selected |-> selected[r],
                                   angle |-> angle,
                                   grids |-> grids,
                                   m_tau |-> 50,
                                   m_v |-> 0, m_w |-> 0 ]],
                     \* observer
                     ticked |-> FALSE,      \* getAction has been called
                     arrow |-> FALSE ]      \* an arrow key has been pressed

twinRest == <<trackerVars, mainVars, loadVars, ctrl, placed, full, sim>>

\* One control tick of both runs, with the same draws and sensor readings
TwinTick ==
    /\ twin # Uninit
    /\ \E noise \in {0, 1}, garbage \in Cells :
        \* a value that is not used is not told apart from cell 0
        /\ garbage # 0 => \E r \in RunIds : /\ twin.runs[r].selected
                                            /\ NoTarget(twin.runs[r], twin.puckCell, noise)
        /\ twin' = [twin EXCEPT
                !.runs = [r \in RunIds |->
                            RunGetAction(twin.runs[r], twin.puckCell, noise, garbage)],
                !.ticked = TRUE]
    /\ UNCHANGED twinRest

\* GUI::sUserInput, Left / Right: the same key press reaches both runs
TwinArrowKey ==
    /\ twin # Uninit
    /\ \E turn \in {-1, 1} :
        twin' = [twin EXCEPT
            !.runs = [r \in RunIds |-> RunRotate(twin.runs[r], turn)],
            !.arrow = TRUE]
    /\ UNCHANGED twinRest

TwinNext ==
    \/ TwinTick
    \/ TwinArrowKey

SpecTwin == TwinInit /\ [][TwinNext]_vars

-----------------------------------------------------------------------------
(* The controller with the stopping criterion: LassoController::getAction   *)
(* of LassoController.hpp.  Grid values, tau and speeds are in hundredths.  *)

MaxFullTicks == 5       \* calls of getAction studied

States == <<"NORMAL", "SATISFIED", "AT_BORDER", "STOPPED">>
Rank(state) == CHOOSE k \in 1..Len(States) : States[k] = state

\* values of grid 1 at the robot: on the start bar's dark side, on its bright side
StartBarValues == {0, 100}

\* outputs of HighPassFilter3, as signs: the filter starts at rest
FilterOutputs == {-1, 0, 1}

\* m_blindTauDist and the cells of grid 0 strictly between 0 and 1
BlindTaus == {75}

\* std::sort of m_tauDuringLoop, kept sorted at every push_back
RECURSIVE SortedInsert(_, _)
SortedInsert(seq, x) ==
    IF seq = <<>> THEN <<x>>
    ELSE IF x <= Head(seq) THEN <<x>> \o seq
    ELSE <<Head(seq)>> \o SortedInsert(Tail(seq), x)

\* m_tauDuringLoop[m_tauDuringLoop.size() / 2] of the sorted vector
Median(sorted, old) == IF Len(sorted) > 0 THEN sorted[(Len(sorted) \div 2) + 1] ELSE old

hitStartBar(startBar, lastStartBar) == startBar < 10 /\ lastStartBar > 90

\* a variant of the test on the filter's outputs that takes 0 for negative
zeroCrossing_fromZero(lastFilteredTau, filteredTau) == lastFilteredTau <= 0 /\ filteredTau > 0

\* m_lastFilteredTau < 0 && m_filteredTau > 0
zeroCrossing(lastFilteredTau, filteredTau) == lastFilteredTau < 0 /\ filteredTau > 0

\* a variant of the test before computeTau that also passes SATISFIED
tauRecomputed_satisfied(state) == state \in {"NORMAL", "SATISFIED"}

\* if (m_state == State::NORMAL) computeTau()
tauRecomputed(state) == state = "NORMAL"

\* a variant of the test before computeSpeeds that passes every state
speedsWanted_always(state) == TRUE

\* if (m_state != State::STOPPED) computeSpeeds()
speedsWanted(state) == state # "STOPPED"

\* a variant of computeTau that never reads the sensor
fullComputeTau_blind(blindness, tau, puck, reset, blindTau) ==
    IF tau = 50 \/ reset THEN blindTau ELSE tau

\* computeTau of the full controller: the two blind variants draw tau when it
\* still is 0.5 or when the reset draw is below 0.001, the normal case takes a
\* valid puck reading
fullComputeTau(blindness, tau, puck, reset, blindTau) ==
    IF blindness \in {1, 2}
    THEN IF tau = 50 \/ reset THEN blindTau ELSE tau
    ELSE computeTau(tau, puck)

FullInit ==
    /\ OthersParked
    /\ ctrl = Uninit
    /\ placed = Uninit
    /\ twin = Uninit
    /\ sim = Uninit
    /\ \E cs \in {0, 1}, blind \in {0, 1, 2}, d \in {0, 1} :
        full = [ controllerState |-> cs,
                 controllerBlindness |-> blind,
                 escapeDuration |-> d,
                 m_state |-> "NORMAL",
                 m_tau |-> 50,
                 m_medianTau |-> 50,
                 m_filteredTau |-> 0,
                 filterOutput |-> 0,           \* m_highPassFilter.getOutput()
                 m_laps |-> 0,
                 m_lastStartBar |-> 0,
                 m_tauDuringLoop |-> <<>>,
                 m_escapeCountdown |-> 0,
                 m_targetValid |-> FALSE,
                 m_v |-> 0, m_w |-> 0,
                 \* observer of the latest call
                 calls |-> 0,
                 before |-> "NORMAL",          \* m_state when it was entered
                 hit |-> FALSE,                \* hitStartBar
                 lastFilteredTau |-> 0,        \* the filter's output before the update
                 puck |-> <<FALSE, 0>> ]       \* the tracked sensor's reading

fullRest == <<trackerVars, mainVars, loadVars, ctrl, placed, twin, sim>>

\* the branch of getAction without state
Stateless(f, puck, reset, blindTau, target, close, far, isStuck, noise) ==
    LET tau == fullComputeTau(f.controllerBlindness, f.m_tau, puck, reset, blindTau)
        speeds == computeSpeeds(target)
        v1 == slowOrStop(speeds[1], close, far)
        countdown == IF isStuck THEN f.escapeDuration ELSE f.m_escapeCountdown
    IN  [f EXCEPT !.m_tau = tau,
                  !.m_targetValid = target # "invalid",
                  !.m_v = IF countdown > 0 THEN noise[1] ELSE v1,
                  !.m_w = IF countdown > 0 THEN noise[2] ELSE speeds[2],
                  !.m_escapeCountdown = countdown,
                  !.hit = FALSE,
                  !.lastFilteredTau = f.filterOutput]

\* the branch of getAction with state
Stateful(f, startBar, newOutput, puck, reset, blindTau, target, close, far, isStuck, noise) ==
    LET hit == hitStartBar(startBar, f.m_lastStartBar)
        median == IF hit THEN Median(f.m_tauDuringLoop, f.m_medianTau) ELSE f.m_medianTau
        lastFilteredTau == f.filterOutput
        filteredTau == IF hit THEN newOutput ELSE f.m_filteredTau
        satisfied == hit /\ f.m_state = "NORMAL" /\ zeroCrossing(lastFilteredTau, filteredTau)
        s1 == IF satisfied THEN "SATISFIED" ELSE f.m_state
        tau1 == IF satisfied THEN 100 ELSE f.m_tau
        loop1 == IF hit THEN <<>> ELSE f.m_tauDuringLoop
        tau2 == IF tauRecomputed(s1)
                THEN fullComputeTau(f.controllerBlindness, tau1, puck, reset, blindTau)
                ELSE tau1
        speeds == IF speedsWanted(s1) THEN computeSpeeds(target) ELSE <<0, 0>>
        targetValid == IF speedsWanted(s1) THEN target # "invalid" ELSE f.m_targetValid
        s2 == IF s1 = "SATISFIED" /\ ~targetValid THEN "AT_BORDER" ELSE s1
        v1 == slowOrStop(speeds[1], close, far)
        s3 == IF s2 = "AT_BORDER" /\ hit THEN "STOPPED" ELSE s2
        escapes == s3 \in {"NORMAL", "SATISFIED"}
        countdown == IF escapes /\ isStuck THEN f.escapeDuration ELSE f.m_escapeCountdown
        noisy == escapes /\ countdown > 0
    IN  [f EXCEPT !.m_state = s3,
                  !.m_laps = IF hit THEN @ + 1 ELSE @,
                  !.m_medianTau = median,
                  !.m_filteredTau = filteredTau,
                  !.filterOutput = IF hit THEN newOutput ELSE @,
                  !.m_lastStartBar = startBar,
                  !.m_tau = tau2,
                  !.m_tauDuringLoop = SortedInsert(loop1, tau2),
                  !.m_targetValid = targetValid,
                  !.m_v = IF noisy THEN noise[1] ELSE v1,
                  !.m_w = IF noisy THEN noise[2] ELSE speeds[2],
                  !.m_escapeCountdown = countdown,
                  !.hit = hit,
                  !.lastFilteredTau = lastFilteredTau]

\* LassoController::getAction with what it reads and draws
FullGetAction ==
    /\ full # Uninit
    /\ full.calls < MaxFullTicks
    /\ \E startBar \in StartBarValues, newOutput \in FilterOutputs,
          puck \in {<<FALSE, 0>>, <<TRUE, 25>>}, reset \in BOOLEAN, blindTau \in BlindTaus,
          target \in Targets, close \in {0, 1}, far \in {0, 1}, isStuck \in BOOLEAN,
          noise \in {<<-50, -50>>} :
        LET f == IF full.controllerState = 0
                 THEN Stateless(full, puck, reset, blindTau, target, close, far, isStuck, noise)
                 ELSE Stateful(full, startBar, newOutput, puck, reset, blindTau, target,
                               close, far, isStuck, noise)
        IN  full' = [f EXCEPT
                !.m_escapeCountdown = IF @ > 0 THEN @ - 1 ELSE @,
                !.calls = full.calls + 1,
                !.before = full.m_state,
                !.puck = puck]
    /\ UNCHANGED fullRest

SpecFull == FullInit /\ [][FullGetAction]_vars

-----------------------------------------------------------------------------
(* One tick of the experiment: MyExperiment::doSimulationStep, for one      *)
(* robot.  Actions are named by numbers: 0 is the action a controller holds *)
(* before its first call of getAction.                                      *)

MaxSkip == 2            \* largest controllerSkip studied
MaxSimSteps == 4        \* ticks studied

\* what getAction may return
ReturnedActions == {1, 2}

\* a variant of the test that reads the step count of before the increment
controllerDue_beforeIncrement(controllerSkip, steps) ==
    controllerSkip = 0 \/ (steps - 1) % controllerSkip = 0

\* controllerSkip == 0 || getStepCount() % controllerSkip == 0
controllerDue(controllerSkip, steps) ==
    controllerSkip = 0 \/ steps % controllerSkip = 0

\* writeDataSkip && getStepCount() % writeDataSkip == 0
dataDue(writeDataSkip, steps) ==
    writeDataSkip # 0 /\ steps % writeDataSkip = 0

StepInit ==
    /\ OthersParked
    /\ ctrl = Uninit
    /\ placed = Uninit
    /\ twin = Uninit
    /\ full = Uninit
    /\ \E skip \in 0..MaxSkip, fake \in {0, 1}, wds \in {0, 2}, dt \in {0, 1} :
        sim = [ controllerSkip |-> skip,
                fakeRobots |-> fake,
                writeDataSkip |-> wds,
                simTimeStep |-> dt,
                stepCount |-> 0,               \* m_speedManager.getStepCount()
                m_previousAction |-> 0,        \* what getLastAction returns
                \* observer of the latest tick
                wrote |-> FALSE,               \* m_dataLogger.writeToFile ran
                invoked |-> FALSE,             \* getAction ran
                returned |-> <<FALSE, 0>>,     \* what the latest getAction returned
                applied |-> <<FALSE, 0>>,      \* what doAction was given
                updated |-> FALSE ]            \* m_sim->update ran

stepRest == <<trackerVars, mainVars, loadVars, ctrl, placed, twin, full>>

doSimulationStep ==
    /\ sim # Uninit
    /\ sim.stepCount < MaxSimSteps
    /\ \E a \in ReturnedActions :
        LET steps == sim.stepCount + 1
            due == controllerDue(sim.controllerSkip, steps)
            action == IF due THEN a ELSE sim.m_previousAction
        IN  sim' = [sim EXCEPT
                !.wrote = dataDue(sim.writeDataSkip, sim.stepCount),
                !.stepCount = steps,
                !.m_previousAction = action,
                !.invoked = due,
                !.returned = IF due THEN <<TRUE, a>> ELSE @,
                !.applied = IF sim.fakeRobots = 0 THEN <<TRUE, action>> ELSE <<FALSE, 0>>,
                !.updated = sim.simTimeStep > 0]
    /\ UNCHANGED stepRest

SpecStep == StepInit /\ [][doSimulationStep]_vars

-----------------------------------------------------------------------------
(* Claims about the trackers and the state-key enumerations *)

\* The caller has kept to the protocol: one update per tick with increasing
\* time, every trial ended by the call at maxTimeSteps
Regular == ~hist.irregular

Sum3(t) == t[1] + t[2] + t[3]

\* C2: for every n in 0..MaxEnumRobots the SGF tracker's state list has
\* (n+1)(n+2)/2 pairwise distinct triples of non-negative integers summing to n,
\* fermo never decreases along the list, solo strictly decreases within equal
\* fermo, and getTripleIndex returns the 0-based list position of every such
\* triple (and of no other key).
C2_TripleEnumeration ==
    kind = "SGF" =>
        LET L == m_triples
            n == numRobots
        IN  /\ 2 * Len(L) = (n + 1) * (n + 2)
            /\ \A i \in 1..Len(L) :
                  /\ L[i][1] >= 0 /\ L[i][2] >= 0 /\ L[i][3] >= 0
                  /\ Sum3(L[i]) = n
            /\ \A i, j \in 1..Len(L) : i # j => L[i] # L[j]
            /\ \A i \in 1..(Len(L) - 1) :
                  /\ L[i][3] <= L[i + 1][3]
                  /\ L[i][3] = L[i + 1][3] => L[i][1] > L[i + 1][1]
            /\ lookup.key # Uninit =>
                  IF lookup.key \in WorldStates(n)
                  THEN /\ lookup.index \in 0..(Len(L) - 1)
                       /\ L[lookup.index + 1] = lookup.key
                  ELSE lookup.index = NotFound

C2_Witness ==
    /\ kind = "SGF"
    /\ numRobots = 3
    /\ lookup.key = Triple(0, 0, 3)
    /\ lookup.index = 9

\* C3: for every n in 0..MaxEnumRobots the SG tracker's state list has
\* (n+1)(n+2)/2 pairwise distinct pairs of non-negative integers with
\* solo+grupo <= n, ordered by solo ascending and by grupo ascending within
\* equal solo, and getPairIndex returns the 0-based list position of every
\* such pair (and of no other key).
C3_PairEnumeration ==
    kind = "SG" =>
        LET L == m_triples
            n == numRobots
        IN  /\ 2 * Len(L) = (n + 1) * (n + 2)
            /\ \A i \in 1..Len(L) :
                  /\ L[i][1] >= 0 /\ L[i][2] >= 0
                  /\ L[i][1] + L[i][2] <= n
            /\ \A i, j \in 1..Len(L) : i # j => L[i] # L[j]
            /\ \A i \in 1..(Len(L) - 1) :
                  \/ L[i][1] < L[i + 1][1]
                  \/ L[i][1] = L[i + 1][1] /\ L[i][2] < L[i + 1][2]
            /\ lookup.key # Uninit =>
                  IF lookup.key[1] + lookup.key[2] <= n
                  THEN /\ lookup.index \in 0..(Len(L) - 1)
                       /\ L[lookup.index + 1] = lookup.key
                  ELSE lookup.index = NotFound

C3_Witness ==
    /\ kind = "SG"
    /\ numRobots = 3
    /\ lookup.key = Pair(1, 2)
    /\ lookup.index = 6

\* C4 as stated: with numRobots = 2 the SGF enumeration gives index 0 to the
\* triple (0,0,2) and index 1 to the triple (1,1,1).
C4_IndexExampleAsStated ==
    (kind = "SGF" /\ numRobots = 2) =>
        /\ getTripleIndex(Triple(0, 0, 2)) = 0
        /\ getTripleIndex(Triple(1, 1, 1)) = 1

\* C4 amended: with numRobots = 2 the SGF enumeration gives index 0 to the
\* triple (2,0,0) and index 1 to the triple (1,1,0); (0,0,2) has the last
\* index, 5, and (1,1,1) is no state of the enumeration.
C4_IndexExample ==
    (kind = "SGF" /\ numRobots = 2) =>
        /\ getTripleIndex(Triple(2, 0, 0)) = 0
        /\ getTripleIndex(Triple(1, 1, 0)) = 1
        /\ getTripleIndex(Triple(0, 0, 2)) = 5
        /\ getTripleIndex(Triple(1, 1, 1)) = NotFound
        /\ lookup.key = Triple(1, 1, 0) => lookup.index = 1

C4_Witness ==
    /\ kind = "SGF"
    /\ numRobots = 2
    /\ lookup.key = Triple(1, 1, 0)
    /\ lookup.index = 1

C9_StateAlwaysEnumerated == tpc # "crashed"

-----------------------------------------------------------------------------
(* Claims about the trial loop, the process and the configuration loader *)

\* C6, as stated: with maxTimeSteps = M > 0 and no abort, run() returns with
\* the step counter exactly equal to M, for every renderSteps >= 1.
C6_TerminatesAtLimit ==
    (pc = "afterRun" /\ maxTimeSteps > 0 /\ ~m_aborted) => stepCount = maxTimeSteps

tracking == TrackerFor(config.trackingMode) \in {"SG", "SGF"}

\* every batch started so far has run all its trials, the latest trial up to
\* its step limit
batchCompleted ==
    /\ constructed > 0
    /\ simCompleted = constructed * config.numTrials
    /\ maxTimeSteps > 0
    /\ ~m_aborted

\* C7, as stated: once all trials of a batch with tracking enabled have
\* completed, the tracker's export is written in every mode of the run; read
\* on the runs that have ended: a process that ended after the last trial of
\* a batch has written that batch's export.
C7_ExportWritten ==
    (pc = "done" /\ tracking /\ batchCompleted)
        => fileWrites[TrackerFor(config.trackingMode)] = constructed

\* C8, as stated: in every process run with tracking, sweeps included, one
\* tracker is constructed and no tracker export file is written more than once.
C8_OneTrackerOneExport ==
    tracking =>
        /\ constructed <= 1
        /\ fileWrites.SGF <= 1
        /\ fileWrites.SG <= 1

\* the defaults of section 4.7, doubles in hundredths
DocumentedDefaults ==
    [gui |-> 1, numRobots |-> 20, fakeRobots |-> 0, robotRadius |-> 1000,
     plowLength |-> 6000, plowAngleDeg |-> 0, numPucks |-> 0, puckRadius |-> 1000,
     arenaConfig |-> "", controllerSkip |-> 0, simTimeStep |-> 100,
     renderSteps |-> 100, maxTimeSteps |-> 0, writeDataSkip |-> 0,
     dataFilenameBase |-> "", numTrials |-> 10, startTrialIndex |-> 0,
     evalName |-> "", captureScreenshots |-> 0, screenshotFilenameBase |-> "",
     maxForwardSpeed |-> 200, maxAngularSpeed |-> 5,
     robotSensingDistance |-> 10000000, puckSensingDistance |-> 10000000,
     goalX |-> 0, goalY |-> 0, sensorNoise |-> 0, controllerState |-> 0,
     filterConstant |-> 0, controllerBlindness |-> 0, escapeDuration |-> 0,
     arenaSweep |-> 0, paramSweep |-> 0, trackingMode |-> 2]

NoRecognizedKey(file) ==
    \A i \in 1..Len(file) : file[i] \notin DOMAIN DocumentedDefaults \cup LegacyKeys

\* a file of `key value' pairs, every value a number
KeyValueFile(file) ==
    /\ Len(file) % 2 = 0
    /\ \A i \in 1..Len(file) : IsNumber(file[i]) <=> i % 2 = 0

\* the pairs of a file that assign trackingMode, and what the last of them assigns
Assigns(file, k) ==
    \/ file[2 * k - 1] = "trackingMode"
    \/ file[2 * k - 1] \in LegacyKeys /\ file[2 * k] = "1"

Assigned(file, k) ==
    CASE file[2 * k - 1] = "trackingMode" -> Digits[file[2 * k]]
      [] file[2 * k - 1] = "sgfTracking" -> 2
      [] file[2 * k - 1] = "sgTracking" -> 1

LastAssigned(file) ==
    LET ks == {k \in 1..(Len(file) \div 2) : Assigns(file, k)}
    IN  IF ks = {} THEN DocumentedDefaults.trackingMode
        ELSE Assigned(file, CHOOSE k \in ks : \A j \in ks : j <= k)

\* the file ends, after white space, with a legacy key whose value is not 1
EndsWithIdleLegacyKey(f) ==
    /\ f.trailing
    /\ Len(f.file) >= 2
    /\ f.file[Len(f.file) - 1] \in LegacyKeys
    /\ f.file[Len(f.file)] # "1"

\* C10: after Config::load, a file without any recognized key (or a file that
\* could not be opened) leaves every field at its documented default; the
\* file `sgfTracking 1' yields trackingMode 2; `sgfTracking 1 trackingMode 0'
\* yields trackingMode 0; and in a file of key-value pairs the last pair that
\* assigns trackingMode decides it.
C10_LoadDefaultsAndLastWins ==
    pc = "loaded" =>
        /\ (NoRecognizedKey(fin.file) \/ ~fin.opened) => config = DocumentedDefaults
        /\ (fin.opened /\ fin.file = <<"sgfTracking", "1">>) => config.trackingMode = 2
        /\ (fin.opened /\ fin.file = <<"sgfTracking", "1", "trackingMode", "0">>)
               => config.trackingMode = 0
        /\ (fin.opened /\ KeyValueFile(fin.file) /\ ~EndsWithIdleLegacyKey(fin))
               => config.trackingMode = LastAssigned(fin.file)

C10_Witness ==
    /\ pc = "loaded"
    /\ fin.opened
    /\ fin.trailing
    /\ fin.file = <<"sgfTracking", "1", "trackingMode", "0">>
    /\ config.trackingMode = 0

\* C11, as stated: at the start of a render batch an evaluation that is not a
\* finite number aborts the trial, so the for loop is only entered with a
\* finite evaluation (when the evaluation is computed at all).
C11_NonFiniteAborts ==
    (pc = "for" /\ config.numPucks > 0) => m_eval = "finite"

\* the trials a command-line batch is to run, as <<trial index, rng seed>>
BatchTrials ==
    [k \in 1..config.numTrials |->
        <<config.startTrialIndex + k - 1, config.startTrialIndex + k>>]

\* the latest batch's part of trialLog
LatestBatch == SubSeq(trialLog, Len(trialLog) - config.numTrials + 1, Len(trialLog))

InSeq(x, seq) == \E k \in 1..Len(seq) : seq[k] = x

NotAborted(i) == ~InSeq(i, abortLog)

\* C12: when a command-line batch has printed its average, every trial of the
\* batch was run, in index order, whether or not an earlier one aborted; the
\* sum holds exactly the trials that did not abort; the divisor is numTrials.
C12_AbortedTrialsAddNothing ==
    pc = "trackerScopeExit" =>
        /\ LatestBatch = BatchTrials
        /\ printed.sum = SelectSeq([k \in 1..config.numTrials |-> BatchTrials[k][1]],
                                   NotAborted)
        /\ printed.divisor = config.numTrials

C12_Witness ==
    /\ pc = "trackerScopeExit"
    /\ config.numTrials = 2
    /\ abortLog = <<config.startTrialIndex>>
    /\ printed.sum = <<config.startTrialIndex + 1>>
    /\ printed.divisor = 2

\* C16, as stated: the bridge's runSimulation runs the same trials, with the
\* same indices and seeds, as the command-line single batch of the same
\* configuration.
C16_BridgeEquivalence ==
    (invocation = "bridge" /\ pc = "done" /\ exitStatus = "returned")
        => trialLog = BatchTrials

-----------------------------------------------------------------------------
(* Claims about the tracker across trials *)

\* C18, as stated: after any update call made with time == maxTimeSteps the
\* ready-to-track flag is cleared.
C18_FlagClearedAsStated ==
    (maxTimeSteps > 0 /\ hist.lastAtEnd /\ hist.lastOutcome # "thrown")
        => ~m_readyToTrack

\* C18: an update call with time == maxTimeSteps that records the end-of-trial
\* event clears the ready-to-track flag, and the first update call of the
\* next trial then only sets the baseline and records no event.
C18_FlagCleared ==
    /\ (hist.lastAtEnd /\ hist.lastOutcome = "recorded") => ~m_readyToTrack
    /\ (hist.trialCalls = 1 /\ ~hist.dup /\ hist.afterEnd = "recorded" /\ tpc = "inTrial")
          => /\ hist.lastOutcome = "baseline"
             /\ total = hist.totalAtStart
             /\ m_lastChangeTime = time
             /\ m_lastCounts = hist.prev

C18_Witness ==
    /\ hist.trialCalls = 1
    /\ ~hist.dup
    /\ hist.afterEnd = "recorded"
    /\ hist.lastOutcome = "baseline"
    /\ total > 0

C20_NoSelfTransition ==
    \A i \in DOMAIN m_uncensoredDurations : m_uncensoredDurations[i][i] = <<>>

C20_Witness ==
    /\ numUncensored > 0
    /\ numCensored > 0
    /\ hist.lastOutcome = "recorded"
    /\ hist.lastAtEnd

-----------------------------------------------------------------------------
(* Claims about the controller *)

-----------------------------------------------------------------------------
(* Claims about world construction *)

\* C15: every robot and every puck that the rejection sampling has placed is
\* not within its own body radius plus the wall's thickness of any "line" wall,
\* whatever robotRadius and puckRadius are
C15_PlacementValid ==
    placed # Uninit =>
        \A i \in DOMAIN placed.entities :
            placed.entities[i].settled =>
                \A j \in DOMAIN placed.lines :
                    Dist(placed.entities[i].p, placed.lines[j].x)
                        >= placed.entities[i].radius + placed.lines[j].r

-----------------------------------------------------------------------------
(* Claims about the debug selection *)

SameControl ==
    /\ twin.runs["A"].m_tau = twin.runs["B"].m_tau
    /\ twin.runs["A"].m_v = twin.runs["B"].m_v
    /\ twin.runs["A"].m_w = twin.runs["B"].m_w

\* C17 as stated: two runs that start from the same world, seed and inputs and
\* differ only in the 'selected' flag have the same tau and the same <<v, w>>
\* at every tick
C17_SelectionNeverInfluences ==
    twin # Uninit => SameControl

\* C17: two runs that start from the same world, seed and inputs and differ
\* only in the 'selected' flag have the same tau, the same <<v, w>> and the
\* same heading at every tick as long as no Left / Right arrow key is pressed;
\* the selection's writes go to grids 2, 3 and 5 only, and grids 0 and 1 stay
\* the same in both runs
C17_SelectionDoesNotInfluenceControl ==
    (twin # Uninit /\ ~twin.arrow) =>
        /\ SameControl
        /\ twin.runs["A"].angle = twin.runs["B"].angle
        /\ twin.runs["A"].grids[0] = twin.runs["B"].grids[0]
        /\ twin.runs["A"].grids[1] = twin.runs["B"].grids[1]
        /\ \A r \in RunIds :
             ~twin.runs[r].selected =>
                \A g \in GridIds \ {0} : \A c \in Cells : twin.runs[r].grids[g][c] = 0

\* one run has the robot selected and the other has not, getAction has found a
\* puck and a target with no arrow key pressed, and grids 2, 3 and 5 of the two
\* runs differ
C17_Witness ==
    /\ twin # Uninit
    /\ twin.ticked
    /\ ~twin.arrow
    /\ twin.runs["A"].selected /\ ~twin.runs["B"].selected
    /\ twin.runs["A"].m_tau = 25
    /\ twin.runs["A"].m_v = 100
    /\ \A g \in {2, 3, 5} : twin.runs["A"].grids[g] # twin.runs["B"].grids[g]

-----------------------------------------------------------------------------
(* Further claims about the controller, the trial loop and the process *)

\* C26 as stated: no escape starts on a control tick for which fewer than 50
\* earlier positions exist (the position of construction counted as one): a
\* call that sets the countdown is at least the 50th
C26_NoEarlyEscape ==
    (ctrl # Uninit /\ ctrl.triggered) => ctrl.calls >= QueueLen

\* C29 as stated: a trial with numPucks = 0 is never aborted by the evaluation
\* check, whatever the evaluation field holds
C29_NoAbortWithoutPucks ==
    config.numPucks = 0 => ~m_aborted

\* C30 as stated: with a GUI and --wait, a process that has ended after a
\* trial ran to its completion has run all numTrials trials of the batch
C30_BatchRunsAllTrials ==
    (pc = "done" /\ waitAfterCompletion /\ config.gui # 0 /\ simCompleted > 0)
        => Len(trialLog) = constructed * config.numTrials

\* C28 as stated: when fakeRobots is enabled, the robot entities of the
\* constructed world are exactly the accepted lattice instances, and no
\* randomly placed robot is added
C28_LatticeReplacesRandom ==
    (placed # Uninit /\ placed.fakeRobots # 0 /\ placed.pc = "done") =>
        \A i \in DOMAIN placed.entities :
            placed.entities[i].tag = "robot" => placed.entities[i].orientation # 0


-----------------------------------------------------------------------------
(* Claims about the controller with the stopping criterion *)

\* C21: with controllerState enabled the state starts at NORMAL and a call of
\* getAction never moves it backward in the order NORMAL, SATISFIED, AT_BORDER,
\* STOPPED; a call entered in STOPPED leaves it STOPPED and returns (0, 0);
\* with controllerState disabled the state is NORMAL forever.
C21_ForwardOnly ==
    full # Uninit =>
        /\ full.calls = 0 => full.m_state = "NORMAL"
        /\ Rank(full.before) <= Rank(full.m_state)
        /\ full.before = "STOPPED" =>
               full.m_state = "STOPPED" /\ full.m_v = 0 /\ full.m_w = 0
        /\ full.controllerState = 0 => full.m_state = "NORMAL"

C21_Witness ==
    /\ full # Uninit
    /\ full.before = "STOPPED"
    /\ full.m_state = "STOPPED"
    /\ full.m_v = 0 /\ full.m_w = 0

\* C22 (as stated): NORMAL -> SATISFIED is taken exactly when the state is
\* NORMAL, the tick is a lap boundary and the filter's output goes from a value
\* <= 0 before the update to a value > 0 after it.
C22_FromNonPositive ==
    (full # Uninit /\ full.controllerState = 1 /\ full.calls > 0) =>
        ((full.before = "NORMAL" /\ full.m_state # "NORMAL")
            <=> (full.before = "NORMAL" /\ full.hit
                    /\ full.lastFilteredTau <= 0 /\ full.m_filteredTau > 0))

\* C22: NORMAL -> SATISFIED is taken exactly when the state is NORMAL, the tick
\* is a lap boundary and the filter's output goes from a value strictly below 0
\* before the update to a value above 0 after it.
C22_FromNegative ==
    (full # Uninit /\ full.controllerState = 1 /\ full.calls > 0) =>
        ((full.before = "NORMAL" /\ full.m_state # "NORMAL")
            <=> (full.before = "NORMAL" /\ full.hit
                    /\ full.lastFilteredTau < 0 /\ full.m_filteredTau > 0))

C22_Witness ==
    /\ full # Uninit
    /\ full.controllerState = 1
    /\ full.before = "NORMAL"
    /\ full.m_state = "SATISFIED"
    /\ full.hit
    /\ full.lastFilteredTau < 0
    /\ full.m_filteredTau > 0

\* C23: a call of getAction that ends in STOPPED was entered in AT_BORDER (or
\* in STOPPED): no single call moves the controller into AT_BORDER and on to
\* STOPPED.
C23_StoppedOnLaterTick ==
    (full # Uninit /\ full.m_state = "STOPPED") =>
        full.before \in {"AT_BORDER", "STOPPED"}

\* C24 (as stated): with controllerState enabled, a tick that ends in NORMAL or
\* in SATISFIED with a valid reading ends with tau equal to the reading.
C24_TauIsReading ==
    (full # Uninit /\ full.controllerState = 1 /\ full.calls > 0
        /\ full.m_state \in {"NORMAL", "SATISFIED"} /\ full.puck[1]) =>
            full.m_tau = full.puck[2]

\* C24: with controllerState enabled and controllerBlindness 0, a tick that
\* ends in NORMAL with a valid reading ends with tau equal to the reading; a
\* tick that ends in SATISFIED ends with tau at 1.0 whatever the reading.
C24_TauIsReadingInNormal ==
    (full # Uninit /\ full.controllerState = 1 /\ full.calls > 0) =>
        /\ (full.m_state = "NORMAL" /\ full.controllerBlindness = 0 /\ full.puck[1]) =>
               full.m_tau = full.puck[2]
        /\ full.m_state = "SATISFIED" => full.m_tau = 100

C24_Witness ==
    /\ full # Uninit
    /\ full.controllerState = 1
    /\ full.controllerBlindness = 0
    /\ full.calls > 1
    /\ full.m_state = "NORMAL"
    /\ full.puck = <<TRUE, 25>>
    /\ full.m_tau = 25

\* C25: from the tick on which the controller enters SATISFIED, tau is 1.0 at
\* the end of every tick, in SATISFIED, AT_BORDER and STOPPED.
C25_TauPinned ==
    (full # Uninit /\ full.m_state \in {"SATISFIED", "AT_BORDER", "STOPPED"}) =>
        full.m_tau = 100

C25_Witness ==
    /\ full # Uninit
    /\ full.before = "SATISFIED"
    /\ full.m_state = "SATISFIED"
    /\ full.puck[1]
    /\ full.m_tau = 100

\* C27: on every tick getAction is invoked exactly when controllerSkip is 0 or
\* the step count after the tick's increment is a multiple of controllerSkip;
\* without fakeRobots the action applied on a tick is the one returned by the
\* most recent invocation (that of the tick itself when there is one), and with
\* fakeRobots no action is applied.
C27_ControlRate ==
    (sim # Uninit /\ sim.stepCount > 0) =>
        /\ sim.invoked <=>
               (sim.controllerSkip = 0 \/ sim.stepCount % sim.controllerSkip = 0)
        /\ (sim.fakeRobots = 0 /\ sim.returned[1]) => sim.applied = sim.returned
        /\ sim.fakeRobots # 0 => ~sim.applied[1]

C27_Witness ==
    /\ sim # Uninit
    /\ sim.controllerSkip = 2
    /\ sim.stepCount = 3
    /\ sim.fakeRobots = 0
    /\ ~sim.invoked
    /\ sim.returned = <<TRUE, 2>>
    /\ sim.applied = <<TRUE, 2>>
=============================================================================
